---- MODULE Spec2Model ----
(***************************************************************************)
(* A model of serde-prc: the "paracobn" param container codec.             *)
(*                                                                         *)
(*   - the Value model and ParamId numbering            (src/src/lib.rs)   *)
(*   - the three-pass encoder and write_value           (src/src/ser.rs)   *)
(*   - the seekable, consumer-driven decoder            (src/src/de.rs)    *)
(*                                                                         *)
(* Bytes are integers 0..255, byte strings are sequences of bytes, and     *)
(* stream positions are 0-based as in std::io::Cursor.                     *)
(***************************************************************************)
EXTENDS Integers, Sequences, FiniteSets, TLC

(***************************************************************************)
(* Generic helpers on sequences and little-endian integers.                *)
(***************************************************************************)
Range(s) == {s[i] : i \in DOMAIN s}

\* bytes[from .. from+n-1] of a 0-based byte string (callers stay within bounds)
Slice(bytes, from, n) == [i \in 1..n |-> bytes[from + i]]

RECURSIVE Pow2(_)
Pow2(n) == IF n = 0 THEN 1 ELSE 2 * Pow2(n - 1)

\* byteorder::WriteBytesExt::write_uN::<LittleEndian>, N = 8 * width
RECURSIVE LE(_, _)
LE(n, width) == IF width = 0 THEN <<>> ELSE <<n % 256>> \o LE(n \div 256, width - 1)

\* the little-endian number of a byte string that stays below 2^31
RECURSIVE FromLE(_)
FromLE(bytes) == IF bytes = <<>> THEN 0 ELSE bytes[1] + 256 * FromLE(Tail(bytes))

\* The model's integers are 32-bit signed.  A u32 (or u64) that is an index,
\* a count or an offset is read exactly below 2^30 and as Huge from there on:
\* Huge is beyond every table and stream of the model, and sums of it with
\* stream positions stay in range.
Huge == Pow2(30)
Unsigned(bytes) ==
    IF \E i \in DOMAIN bytes : i >= 4 /\ (bytes[i] # 0 /\ (i > 4 \/ bytes[i] >= 64)) THEN Huge
    ELSE FromLE(SubSeq(bytes, 1, IF Len(bytes) < 4 THEN Len(bytes) ELSE 4))

\* two's complement of 8 and 16 bits: iN -> uN (the `as` cast of the
\* writers) and back
ToUnsigned(v, bits) == v % Pow2(bits)
ToSigned(u, bits) == IF u >= Pow2(bits - 1) THEN u - Pow2(bits) ELSE u

\* write_i32::<LittleEndian>: the four bytes of a 32-bit two's complement
LE32Signed(v) ==
    IF v >= 0 THEN LE(v, 4)
    ELSE LET low31 == (v + Pow2(30)) + Pow2(30)
         IN LE(low31 % Pow2(24), 3) \o <<128 + (low31 \div Pow2(24))>>

\* read_i32::<LittleEndian>
I32Of(bytes) ==
    IF bytes[4] >= 128 THEN FromLE(SubSeq(bytes, 1, 3)) + (bytes[4] - 256) * Pow2(24)
    ELSE FromLE(bytes)

\* read_u32::<LittleEndian> of a payload: exact below 2^31; the values from
\* 2^31 on are outside the model's integers and read as 2^31 - 1
U32Of(bytes) ==
    IF bytes[4] >= 128 THEN (Pow2(30) - 1) + Pow2(30) ELSE FromLE(bytes)

\* position of the first element of s satisfying Test, 0-based; -1 if none
\* (Iterator::position, with None as -1)
FirstIndex(s, Test(_)) ==
    IF \E i \in DOMAIN s : Test(s[i])
    THEN (CHOOSE i \in DOMAIN s : Test(s[i]) /\ \A j \in 1..(i - 1) : ~Test(s[j])) - 1
    ELSE -1

(***************************************************************************)
(* lib.rs: ParamId and Value (decl_id!).                                   *)
(***************************************************************************)
ParamIdOf(t) ==
    CASE t = "Bool" -> 1 [] t = "I8" -> 2 [] t = "U8" -> 3 [] t = "I16" -> 4
      [] t = "U16" -> 5 [] t = "I32" -> 6 [] t = "U32" -> 7 [] t = "F32" -> 8
      [] t = "Hash" -> 9 [] t = "String" -> 10 [] t = "List" -> 11 [] t = "Map" -> 12

ParamIds == {"Bool", "I8", "U8", "I16", "U16", "I32", "U32", "F32",
             "Hash", "String", "List", "Map"}

\* variant: the byte after the last tag is taken for a Map as well
TryFromU8Wide(byte) ==
    IF byte = 13 THEN [ok |-> TRUE, id |-> "Map"]
    ELSE IF \E t \in ParamIds : ParamIdOf(t) = byte
         THEN [ok |-> TRUE, id |-> CHOOSE t \in ParamIds : ParamIdOf(t) = byte]
         ELSE [ok |-> FALSE, id |-> byte]

\* TryFrom<u8> for ParamId: Ok(kind) or Err(byte)
TryFromU8(byte) ==
    IF \E t \in ParamIds : ParamIdOf(t) = byte
    THEN [ok |-> TRUE, id |-> CHOOSE t \in ParamIds : ParamIdOf(t) = byte]
    ELSE [ok |-> FALSE, id |-> byte]

\* Value constructors. A String holds its bytes, a List its elements in order,
\* a Map its (key, value) entries in insertion order (IndexMap), keys unique.
\* An F32 holds its 32-bit pattern.
\* A Value is the pair of its kind and its payload.
Val(t, v) == <<t, v>>
Kind(value) == value[1]
Body(value) == value[2]

(***************************************************************************)
(* ser.rs: the size function and the three planning passes.                *)
(***************************************************************************)
prim(size_of) == 1 + size_of

RECURSIVE calculate_binary_size_of_value(_)
RECURSIVE SumSizes(_)
SumSizes(values) ==
    IF values = <<>> THEN 0
    ELSE calculate_binary_size_of_value(Head(values)) + SumSizes(Tail(values))

MapValues(map) == [i \in DOMAIN map |-> map[i][2]]
MapKeys(map) == [i \in DOMAIN map |-> map[i][1]]

\* variant: a Map is sized without its header offset field
size_without_ref_offset(value) ==
    CASE Kind(value) \in {"Bool", "U8", "I8"} -> prim(1)
      [] Kind(value) \in {"I16", "U16"} -> prim(2)
      [] Kind(value) \in {"I32", "U32", "F32", "String", "Hash"} -> prim(4)
      [] Kind(value) = "List" -> prim(4) + Len(Body(value)) * 4 + SumSizes(Body(value))
      [] Kind(value) = "Map" -> prim(4) + SumSizes(MapValues(Body(value)))

calculate_binary_size_of_value(value) ==
    CASE Kind(value) \in {"Bool", "U8", "I8"} -> prim(1)
      [] Kind(value) \in {"I16", "U16"} -> prim(2)
      [] Kind(value) \in {"I32", "U32", "F32", "String", "Hash"} -> prim(4)
      [] Kind(value) = "List" -> prim(4) + Len(Body(value)) * 4 + SumSizes(Body(value))
      [] Kind(value) = "Map" -> prim(4) + 4 + SumSizes(MapValues(Body(value)))

\* IndexMap::insert: a new key is appended, an old key keeps its place
IndexMapInsert(map, k, x) ==
    IF \E i \in DOMAIN map : map[i][1] = k
    THEN [i \in DOMAIN map |-> IF map[i][1] = k THEN <<k, x>> ELSE map[i]]
    ELSE Append(map, <<k, x>>)

\* value.serialize(IntoValueSerializer): the tree is rebuilt node by node,
\* a List by ListSerializer, a Map entry by entry by MapSerializer
RECURSIVE serialize(_)
RECURSIVE serialize_entries(_, _)
serialize_entries(map, entries) ==
    IF entries = <<>> THEN map
    ELSE serialize_entries(
            IndexMapInsert(map, Head(entries)[1], serialize(Head(entries)[2])), Tail(entries))
serialize(value) ==
    CASE Kind(value) = "List" ->
            Val("List", [i \in DOMAIN Body(value) |-> serialize(Body(value)[i])])
      [] Kind(value) = "Map" -> Val("Map", serialize_entries(<<>>, Body(value)))
      [] OTHER -> Val(Kind(value), Body(value))

\* variant: a hash already in the set is added again
IndexSetInsertAgain(lookup, hash) == Append(lookup, hash)

\* IndexSet::insert / IndexSet::get_index_of (0-based; -1 for None)
IndexSetInsert(lookup, hash) ==
    IF hash \in Range(lookup) THEN lookup ELSE Append(lookup, hash)
GetIndexOf(lookup, hash) ==
    IF hash \in Range(lookup) THEN (CHOOSE i \in DOMAIN lookup : lookup[i] = hash) - 1 ELSE -1

RECURSIVE visit_hashes(_, _)
RECURSIVE visit_hashes_list(_, _)
RECURSIVE visit_hashes_map(_, _)
visit_hashes_list(lookup, values) ==
    IF values = <<>> THEN lookup
    ELSE visit_hashes_list(visit_hashes(lookup, Head(values)), Tail(values))
visit_hashes_map(lookup, map) ==
    IF map = <<>> THEN lookup
    ELSE visit_hashes_map(
            visit_hashes(IndexSetInsert(lookup, Head(map)[1]), Head(map)[2]), Tail(map))
visit_hashes(lookup, value) ==
    CASE Kind(value) = "Hash" -> IndexSetInsert(lookup, Body(value))
      [] Kind(value) = "List" -> visit_hashes_list(lookup, Body(value))
      [] Kind(value) = "Map" -> visit_hashes_map(lookup, Body(value))
      [] OTHER -> lookup

\* HashMap as a function; the empty map is the empty function
EmptyMap == <<>>
MapInsert(m, k, x) == (k :> x) @@ m

\* st = [data |-> reference blob so far, lookup |-> string content -> offset]
RECURSIVE visit_strings(_, _)
RECURSIVE visit_strings_list(_, _)
visit_strings_list(st, values) ==
    IF values = <<>> THEN st
    ELSE visit_strings_list(visit_strings(st, Head(values)), Tail(values))
\* variant: a String is appended whether or not its content is known
visit_strings_every(st, value) ==
    CASE Kind(value) = "String" ->
            [data |-> st.data \o Body(value) \o <<0>>,
             lookup |-> MapInsert(st.lookup, Body(value), Len(st.data))]
      [] Kind(value) = "List" -> visit_strings_list(st, Body(value))
      [] Kind(value) = "Map" -> visit_strings_list(st, MapValues(Body(value)))
      [] OTHER -> st

visit_strings(st, value) ==
    CASE Kind(value) = "String" /\ Body(value) \notin DOMAIN st.lookup ->
            [data |-> st.data \o Body(value) \o <<0>>,
             lookup |-> MapInsert(st.lookup, Body(value), Len(st.data))]
      [] Kind(value) = "List" -> visit_strings_list(st, Body(value))
      [] Kind(value) = "Map" -> visit_strings_list(st, MapValues(Body(value)))
      [] OTHER -> st

\* The fingerprint of a Map: DefaultHasher fed, per entry, the key and the
\* value's binary size.  The 64-bit digest is modelled by the sequence it is
\* computed from (the digest is taken to be collision free).
\* variant: the fingerprint is taken of the values, not of their sizes
get_struct_key_of_values(map) == map

get_struct_key(map) ==
    [i \in DOMAIN map |-> <<map[i][1], calculate_binary_size_of_value(map[i][2])>>]

\* the header of a Map: per entry, key_index and value_offset as u32 LE,
\* wip_offset starting at prim::<u32>() + size_of::<u32>()
RECURSIVE struct_header(_, _, _)
struct_header(hashes, map, wip_offset) ==
    IF map = <<>> THEN <<>>
    ELSE LE(GetIndexOf(hashes, Head(map)[1]), 4) \o LE(wip_offset, 4)
         \o struct_header(hashes, Tail(map),
                          wip_offset + calculate_binary_size_of_value(Head(map)[2]))

\* st = [data |-> reference blob so far, lookup |-> fingerprint -> offset]
RECURSIVE visit_structs(_, _, _)
RECURSIVE visit_structs_list(_, _, _)
visit_structs_list(hashes, st, values) ==
    IF values = <<>> THEN st
    ELSE visit_structs_list(hashes, visit_structs(hashes, st, Head(values)), Tail(values))
visit_structs(hashes, st, value) ==
    CASE Kind(value) = "List" -> visit_structs_list(hashes, st, Body(value))
      [] Kind(value) = "Map" ->
            LET key == get_struct_key(Body(value)) IN
            IF key \in DOMAIN st.lookup THEN st
            ELSE visit_structs_list(hashes,
                    [data |-> st.data \o struct_header(hashes, Body(value), prim(4) + 4),
                     lookup |-> MapInsert(st.lookup, key, Len(st.data))],
                    MapValues(Body(value)))
      [] OTHER -> st

(***************************************************************************)
(* ser.rs: write_value and write.  A writer result is the bytes written,   *)
(* or a panic (a failed `expect`), after which nothing is returned.        *)
(***************************************************************************)
WOk(bytes) == [panic |-> FALSE, bytes |-> bytes]
WPanic == [panic |-> TRUE, bytes |-> <<>>]
WThen(first, second) ==
    IF first.panic THEN WPanic
    ELSE IF second.panic THEN WPanic ELSE WOk(first.bytes \o second.bytes)

\* variant: every element is taken to be 5 bytes long
RECURSIVE list_offsets_of_fives(_, _)
list_offsets_of_fives(values, wip_offset) ==
    IF values = <<>> THEN <<>>
    ELSE LE(wip_offset, 4) \o list_offsets_of_fives(Tail(values), wip_offset + 5)

\* the element offsets of a List: running sums of the element sizes
RECURSIVE list_offsets(_, _)
list_offsets(values, wip_offset) ==
    IF values = <<>> THEN <<>>
    ELSE LE(wip_offset, 4)
         \o list_offsets(Tail(values), wip_offset + calculate_binary_size_of_value(Head(values)))

\* the payload of a scalar leaf, little-endian
ScalarBytes(value) ==
    CASE Kind(value) = "Bool" -> <<IF Body(value) THEN 1 ELSE 0>>
      [] Kind(value) = "I8" -> LE(ToUnsigned(Body(value), 8), 1)
      [] Kind(value) = "U8" -> LE(Body(value), 1)
      [] Kind(value) = "I16" -> LE(ToUnsigned(Body(value), 16), 2)
      [] Kind(value) = "U16" -> LE(Body(value), 2)
      [] Kind(value) = "I32" -> LE32Signed(Body(value))
      [] Kind(value) = "U32" -> LE(Body(value), 4)
      [] Kind(value) = "F32" -> LE(Body(value), 4)

RECURSIVE write_value(_, _, _, _)
RECURSIVE write_values(_, _, _, _)
write_values(hashes, strings, structs, values) ==
    IF values = <<>> THEN WOk(<<>>)
    ELSE WThen(write_value(hashes, strings, structs, Head(values)),
               write_values(hashes, strings, structs, Tail(values)))
write_value(hashes, strings, structs, value) ==
    CASE Kind(value) = "Hash" ->
            IF GetIndexOf(hashes, Body(value)) = -1 THEN WPanic
            ELSE WOk(<<ParamIdOf("Hash")>> \o LE(GetIndexOf(hashes, Body(value)), 4))
      [] Kind(value) = "String" ->
            IF Body(value) \notin DOMAIN strings THEN WPanic
            ELSE WOk(<<ParamIdOf("String")>> \o LE(strings[Body(value)], 4))
      [] Kind(value) = "List" ->
            WThen(WOk(<<ParamIdOf("List")>> \o LE(Len(Body(value)), 4)
                      \o list_offsets(Body(value), prim(4) + Len(Body(value)) * 4)),
                  write_values(hashes, strings, structs, Body(value)))
      [] Kind(value) = "Map" ->
            IF get_struct_key(Body(value)) \notin DOMAIN structs THEN WPanic
            ELSE WThen(WOk(<<ParamIdOf("Map")>> \o LE(Len(Body(value)), 4)
                           \o LE(structs[get_struct_key(Body(value))], 4)),
                       write_values(hashes, strings, structs, MapValues(Body(value))))
      [] OTHER -> WOk(<<ParamIdOf(Kind(value))>> \o ScalarBytes(value))

\* the tables the three passes of `write` build for a tree
hash_lookup(value) == visit_hashes(<<>>, value)
string_pass(value) == visit_strings([data |-> <<>>, lookup |-> EmptyMap], value)
struct_pass(value) ==
    visit_structs(hash_lookup(value),
                  [data |-> string_pass(value).data, lookup |-> EmptyMap], value)
reference_data(value) == struct_pass(value).data

RECURSIVE hash_table_bytes(_)
hash_table_bytes(hashes) ==
    IF hashes = <<>> THEN <<>> ELSE LE(Head(hashes), 8) \o hash_table_bytes(Tail(hashes))

\* b"paracobn"
Magic == <<112, 97, 114, 97, 99, 111, 98, 110>>

\* variant: the first length field holds the number of hashes
write_hash_count(value) ==
    LET tree == serialize(value) IN
    WThen(WOk(Magic \o LE(Len(hash_lookup(tree)), 4)
              \o LE(Len(reference_data(tree)), 4)
              \o hash_table_bytes(hash_lookup(tree))
              \o reference_data(tree)),
          write_value(hash_lookup(tree), string_pass(tree).lookup,
                      struct_pass(tree).lookup, tree))

\* write / to_vec: the whole document, or a panic
write(value) ==
    LET tree == serialize(value) IN
    WThen(WOk(Magic \o LE(8 * Len(hash_lookup(tree)), 4)
              \o LE(Len(reference_data(tree)), 4)
              \o hash_table_bytes(hash_lookup(tree))
              \o reference_data(tree)),
          write_value(hash_lookup(tree), string_pass(tree).lookup,
                      struct_pass(tree).lookup, tree))
to_vec(value) == write(value)

(***************************************************************************)
(* de.rs: results, errors and the tri! macro.                              *)
(*   <<"Ok", x>>                          Ok(x)                            *)
(*   <<"Err", cause, arg, position_stack>> Err(Error{cause, position_stack})*)
(*   <<"Panic">>                          a failed unwrap: nothing returns *)
(***************************************************************************)
None == "None"
NoResult == <<None>>
Ok(x) == <<"Ok", x>>
Err(cause, arg) == <<"Err", cause, arg, <<>> >>
Panic == <<"Panic">>
IsOk(res) == res[1] = "Ok"
IsErr(res) == res[1] = "Err"
IsPanic(res) == res[1] = "Panic"
Cause(res) == res[2]
Arg(res) == res[3]
PositionStack(res) == res[4]

\* variant: the error passes through as it is
tri_unframed(parsing, position, res) == res

\* tri!: an error passing through gets the frame (ParseId, position), where
\* position is the stream position taken before the expression was evaluated
tri(parsing, position, res) ==
    IF IsErr(res) THEN <<"Err", res[2], res[3], Append(res[4], <<parsing, position>>)>>
    ELSE res

\* a reader state paired with the result of an operation on it
R(rd, res) == [rd |-> rd, res |-> res]

(***************************************************************************)
(* lib.rs: the as_* accessors and merge.  An Option is Some(x) or          *)
(* NoResult.  A u32 above 2^31 - 1 is kept as 2^31 - 1, the largest        *)
(* integer at hand.                                                        *)
(***************************************************************************)
Some(x) == <<"Some", x>>

I32Max == (Pow2(30) - 1) + Pow2(30)
I32Min == (-I32Max) - 1

\* (*v).try_into().ok() into a type of the range lo..hi
try_into(v, lo, hi) == IF lo <= v /\ v <= hi THEN Some(v) ELSE NoResult

\* *v as u16 and *v as u32 of a signed integer: sign extension, then the
\* bits read as unsigned
as_cast_u16(v) == v % 65536
as_cast_u32(v) == IF v < 0 THEN I32Max ELSE v

\* variant: a Hash is also read from a U32
as_hash_or_u32(value) ==
    IF Kind(value) \in {"Hash", "U32"} THEN Some(Body(value)) ELSE NoResult

as_bool(value) == IF Kind(value) = "Bool" THEN Some(Body(value)) ELSE NoResult

as_i8(value) ==
    CASE Kind(value) = "I8" -> Some(Body(value))
      [] Kind(value) \in {"U8", "I16", "U16", "I32", "U32"} -> try_into(Body(value), -128, 127)
      [] OTHER -> NoResult

as_u8(value) ==
    CASE Kind(value) = "U8" -> Some(Body(value))
      [] Kind(value) \in {"I8", "I16", "U16", "I32", "U32"} -> try_into(Body(value), 0, 255)
      [] OTHER -> NoResult

as_i16(value) ==
    CASE Kind(value) \in {"I8", "U8", "I16"} -> Some(Body(value))
      [] Kind(value) \in {"U16", "I32", "U32"} -> try_into(Body(value), -32768, 32767)
      [] OTHER -> NoResult

as_u16(value) ==
    CASE Kind(value) = "I8" -> Some(as_cast_u16(Body(value)))
      [] Kind(value) \in {"U8", "U16"} -> Some(Body(value))
      [] Kind(value) \in {"I16", "I32", "U32"} -> try_into(Body(value), 0, 65535)
      [] OTHER -> NoResult

as_i32(value) ==
    CASE Kind(value) \in {"I8", "U8", "I16", "U16", "I32"} -> Some(Body(value))
      [] Kind(value) = "U32" -> try_into(Body(value), I32Min, I32Max)
      [] OTHER -> NoResult

as_u32(value) ==
    CASE Kind(value) \in {"I8", "I16"} -> Some(as_cast_u32(Body(value)))
      [] Kind(value) \in {"U8", "U16", "U32"} -> Some(Body(value))
      [] Kind(value) = "I32" -> try_into(Body(value), 0, I32Max)
      [] OTHER -> NoResult

as_f32(value) == IF Kind(value) = "F32" THEN Some(Body(value)) ELSE NoResult
as_hash(value) == IF Kind(value) = "Hash" THEN Some(Body(value)) ELSE NoResult
as_str(value) == IF Kind(value) = "String" THEN Some(Body(value)) ELSE NoResult
as_list(value) == IF Kind(value) = "List" THEN Some(Body(value)) ELSE NoResult
as_map(value) == IF Kind(value) = "Map" THEN Some(Body(value)) ELSE NoResult

\* the accessor the arm of merge for a leaf of kind t calls on the source
as_leaf(t, other) ==
    CASE t = "Bool" -> as_bool(other)
      [] t = "I8" -> as_i8(other)
      [] t = "U8" -> as_u8(other)
      [] t = "I16" -> as_i16(other)
      [] t = "U16" -> as_u16(other)
      [] t = "I32" -> as_i32(other)
      [] t = "U32" -> as_u32(other)
      [] t = "F32" -> as_f32(other)
      [] t = "Hash" -> as_hash(other)
      [] t = "String" -> as_str(other)

\* if let Some(other) = ... { *v = other; }
assign_some(value, other) ==
    IF other = NoResult THEN value ELSE Val(Kind(value), other[2])

\* IndexMap::get: Some(the value under the key) or None
index_map_get(map, k) ==
    IF \E i \in DOMAIN map : map[i][1] = k
    THEN Some(map[CHOOSE i \in DOMAIN map : map[i][1] = k][2])
    ELSE NoResult

\* Value::merge: the target after self.merge(other)
RECURSIVE merge(_, _)

\* variant: the elements the source has beyond the target are taken over
merge_list_growing(list, other) ==
    [i \in 1..(IF Len(other) > Len(list) THEN Len(other) ELSE Len(list)) |->
        IF i > Len(list) THEN other[i]
        ELSE IF i <= Len(other) THEN merge(list[i], other[i]) ELSE list[i]]

\* v.iter_mut().zip(other): element by element as far as both Lists go
merge_list(list, other) ==
    [i \in DOMAIN list |-> IF i <= Len(other) THEN merge(list[i], other[i]) ELSE list[i]]

\* for (k, v) in v.iter_mut(): the entries whose key the source has
merge_map(map, other) ==
    [i \in DOMAIN map |->
        IF index_map_get(other, map[i][1]) = NoResult THEN map[i]
        ELSE <<map[i][1], merge(map[i][2], index_map_get(other, map[i][1])[2])>>]

merge(value, other) ==
    CASE Kind(value) = "List" ->
            IF as_list(other) = NoResult THEN value
            ELSE Val("List", merge_list(Body(value), as_list(other)[2]))
      [] Kind(value) = "Map" ->
            IF as_map(other) = NoResult THEN value
            ELSE Val("Map", merge_map(Body(value), as_map(other)[2]))
      [] OTHER -> assign_some(value, as_leaf(Kind(value), other))

(***************************************************************************)
(* The reader state rd (ParamFileReader with its ReferenceData):           *)
(*   stream, pos       the Cursor: its bytes and its position              *)
(*   hashes            the hash table                                      *)
(*   file_offset, raw  ReferenceData                                       *)
(*   strings, maps     the two caches of ReferenceData, keyed by offset    *)
(*   peeked_param_id   Option<ParamId>                                     *)
(*   log               the table lookups made by the running operation     *)
(*                     (history, not program state)                        *)
(***************************************************************************)
NewReader(stream, pos, hashes, raw, file_offset) ==
    [stream |-> stream, pos |-> pos, hashes |-> hashes, raw |-> raw,
     file_offset |-> file_offset, strings |-> EmptyMap, maps |-> EmptyMap,
     peeked_param_id |-> None, log |-> <<>>]

Logged(rd, event) == [rd EXCEPT !.log = Append(@, event)]

\* Cursor::read_exact: the bytes and pos advanced, or an UnexpectedEof error
\* that leaves the cursor at the end of the stream
read_exact(rd, n) ==
    IF rd.pos + n <= Len(rd.stream)
    THEN R([rd EXCEPT !.pos = @ + n], Ok(Slice(rd.stream, rd.pos, n)))
    ELSE R([rd EXCEPT !.pos = Len(rd.stream)], Err("IO", 0))

\* read_u8 / read_u32::<LittleEndian> of a tag, index, count or offset
read_uint_of(r) == IF IsOk(r.res) THEN R(r.rd, Ok(Unsigned(r.res[2]))) ELSE r
read_uint(rd, width) == read_uint_of(read_exact(rd, width))

seek(rd, offset) == [rd EXCEPT !.pos = offset]

\* read_param_id once the byte was read (r), the reader having been at rd
param_id_of_byte(rd, r) ==
    IF ~IsOk(r.res) THEN R(r.rd, tri("ParamId", rd.pos, r.res))
    ELSE IF TryFromU8(r.res[2]).ok THEN R(r.rd, Ok(TryFromU8(r.res[2]).id))
         ELSE R(r.rd, tri("ParamId", r.rd.pos, Err("InvalidParamId", r.res[2])))

read_param_id(rd) == param_id_of_byte(rd, read_uint(rd, 1))

\* peek_param_id once the tag was read (r): it is kept as the peeked tag
peeked(r) ==
    IF IsOk(r.res) THEN R([r.rd EXCEPT !.peeked_param_id = r.res[2]], r.res) ELSE r

peek_param_id(rd) ==
    IF rd.peeked_param_id # None THEN R(rd, Ok(rd.peeked_param_id))
    ELSE peeked(read_param_id(rd))

next_param_id(rd) ==
    IF rd.peeked_param_id # None
    THEN R([rd EXCEPT !.peeked_param_id = None], Ok(rd.peeked_param_id))
    ELSE read_param_id(rd)

IsNul(byte) == byte = 0
NotAscii(byte) == byte >= 128

\* variant: the slice runs one byte too far and takes the terminator along
StringBytesWithNul(data, len) == SubSeq(data, 1, len + 1)

\* &data[..len]
StringBytes(data, len) == SubSeq(data, 1, len)

\* variant: the last entry of the table is taken to be out of bounds
hashes_get_short(hashes, index) ==
    IF index + 1 < Len(hashes) THEN <<"Ok", hashes[index + 1]>> ELSE <<"None">>

\* hashes.get(index): Ok(the hash) for Some, NoResult for None
hashes_get(hashes, index) ==
    IF index < Len(hashes) THEN Ok(hashes[index + 1]) ELSE NoResult

\* get_string from the ASCII test on: pos is the index of the first
\* non-ASCII byte of `string`, -1 for none
string_checked(rd, offset, string, pos) ==
    IF pos # -1 THEN R(rd, Err("StringNotAscii", rd.file_offset + offset + pos))
    ELSE R([rd EXCEPT !.strings = MapInsert(@, offset, string)], Ok(string))

\* get_string from the search of the terminator on: len is the index of the
\* first zero byte of `data`, -1 for none
string_terminated(rd, offset, data, len) ==
    IF len = -1 THEN R(rd, Err("StringRefOutOfBounds", rd.file_offset + offset))
    ELSE string_checked(rd, offset, StringBytes(data, len),
                        FirstIndex(StringBytes(data, len), NotAscii))

\* ParamFileReader::get_string past the cache
get_string_uncached(rd, offset) ==
    IF offset >= Len(rd.raw) THEN R(rd, Err("StringRefOutOfBounds", offset))
    ELSE string_terminated(rd, offset, SubSeq(rd.raw, offset + 1, Len(rd.raw)),
                           FirstIndex(SubSeq(rd.raw, offset + 1, Len(rd.raw)), IsNul))

\* the lookup r of a string, put in the history
string_logged(offset, cached, r) ==
    R(Logged(r.rd, <<"get_string", offset, r.res, cached>>), r.res)

\* ParamFileReader::get_string
get_string(rd, offset) ==
    string_logged(offset, offset \in DOMAIN rd.strings,
                  IF offset \in DOMAIN rd.strings THEN R(rd, Ok(rd.strings[offset]))
                  ELSE get_string_uncached(rd, offset))

\* the index-th (hash index, data offset) pair of the header at `offset`
HeaderEntry(raw, offset, index) ==
    <<Unsigned(Slice(raw, offset + index * 8, 4)),
      Unsigned(Slice(raw, offset + index * 8 + 4, 4))>>

WithDataStart(fields, data_start) ==
    [i \in DOMAIN fields |-> <<fields[i][1], data_start + fields[i][2]>>]

\* the hash index of the first of the `len` header entries at `offset` whose
\* hash index is out of bounds, -1 when there is none
FirstBadIndex(rd, offset, len) ==
    IF \A i \in 1..len : IsOk(hashes_get(rd.hashes, HeaderEntry(rd.raw, offset, i - 1)[1]))
    THEN -1
    ELSE HeaderEntry(rd.raw, offset,
                     (CHOOSE i \in 1..len :
                        /\ ~IsOk(hashes_get(rd.hashes, HeaderEntry(rd.raw, offset, i - 1)[1]))
                        /\ \A j \in 1..(i - 1) :
                              IsOk(hashes_get(rd.hashes, HeaderEntry(rd.raw, offset, j - 1)[1])))
                     - 1)[1]

\* the (hash, data offset) pairs of the `len` header entries at `offset`
HeaderFields(rd, offset, len) ==
    [i \in 1..len |-> <<hashes_get(rd.hashes, HeaderEntry(rd.raw, offset, i - 1)[1])[2],
                        HeaderEntry(rd.raw, offset, i - 1)[2]>>]

\* variant: the cache keeps the offsets as they are for the Map being parsed
map_parsed_for_one(rd, offset, data_start, fields) ==
    R([rd EXCEPT !.maps = MapInsert(@, offset, WithDataStart(fields, data_start))],
      Ok(WithDataStart(fields, data_start)))

\* get_map once the fields are parsed: they are cached by offset
map_parsed(rd, offset, data_start, fields) ==
    R([rd EXCEPT !.maps = MapInsert(@, offset, fields)], Ok(WithDataStart(fields, data_start)))

\* ParamFileReader::get_map past the cache
get_map_uncached(rd, offset, len, data_start) ==
    \* offset + len * 8 > raw.len(), computed without leaving the integers
    IF offset > Len(rd.raw) \/ len > (Len(rd.raw) - offset) \div 8
    THEN R(rd, Err("MapRefOutOfBounds", <<rd.file_offset + offset, len>>))
    ELSE IF FirstBadIndex(rd, offset, len) # -1
         THEN R(rd, Err("HashOutOfBounds", FirstBadIndex(rd, offset, len)))
         ELSE map_parsed(rd, offset, data_start, HeaderFields(rd, offset, len))

\* the lookup r of a header, put in the history
map_logged(offset, len, data_start, cached, r) ==
    R(Logged(r.rd, <<"get_map", offset, len, data_start, r.res, cached>>), r.res)

\* ParamFileReader::get_map
get_map(rd, offset, len, data_start) ==
    map_logged(offset, len, data_start, offset \in DOMAIN rd.maps,
               IF offset \in DOMAIN rd.maps
               THEN R(rd, Ok(WithDataStart(rd.maps[offset], data_start)))
               ELSE get_map_uncached(rd, offset, len, data_start))

(***************************************************************************)
(* Text helpers: Hash40's Display (no labels loaded: "0x" and ten          *)
(* lower-case hex digits) and u64::from_str_radix(_, 16).                  *)
(***************************************************************************)
HexDigit(d) == IF d < 10 THEN 48 + d ELSE 87 + d

RECURSIVE HexDigits(_, _)
HexDigits(n, width) ==
    IF width = 0 THEN <<>> ELSE HexDigits(n \div 16, width - 1) \o <<HexDigit(n % 16)>>

\* format!("{hash}")
FormatHash(hash) == <<48, 120>> \o HexDigits(hash, 10)

HexVal(c) ==
    CASE c \in 48..57 -> c - 48
      [] c \in 97..102 -> c - 87
      [] c \in 65..70 -> c - 55
      [] OTHER -> -1

RECURSIVE HexNumber(_, _)
HexNumber(digits, acc) ==
    IF digits = <<>> THEN acc ELSE HexNumber(Tail(digits), acc * 16 + HexVal(Head(digits)))

\* u64::from_str_radix(text, 16): an optional '+', then one or more hex
\* digits; -1 for Err
FromStrRadix16(text) ==
    LET digits == IF text # <<>> /\ Head(text) = 43 THEN Tail(text) ELSE text
    IN IF digits = <<>> \/ \E i \in DOMAIN digits : HexVal(digits[i]) = -1 THEN -1
       ELSE HexNumber(digits, 0)

\* ValueVisitor::visit_str (visit_string forwards to it)
visit_str(v) ==
    IF Len(v) = 12 /\ SubSeq(v, 1, 2) = <<48, 120>> /\ FromStrRadix16(SubSeq(v, 3, 12)) # -1
    THEN Ok(Val("Hash", FromStrRadix16(SubSeq(v, 3, 12))))
    ELSE Ok(Val("String", v))

(***************************************************************************)
(* Scalar payloads.                                                        *)
(***************************************************************************)
Scalars == {"Bool", "I8", "U8", "I16", "U16", "I32", "U32", "F32"}

ScalarWidth(t) ==
    CASE t \in {"Bool", "I8", "U8"} -> 1 [] t \in {"I16", "U16"} -> 2 [] OTHER -> 4

\* variant: every payload is read as unsigned
DecodeScalarUnsigned(t, bytes) ==
    CASE t = "Bool" -> (bytes[1] # 0)
      [] t \in {"I32", "U32"} -> U32Of(bytes)
      [] OTHER -> FromLE(bytes)

\* read_u8 / read_i8 / read_i16::<LittleEndian> ... of the payload bytes
DecodeScalar(t, bytes) ==
    CASE t = "Bool" -> (bytes[1] # 0)
      [] t = "I8" -> ToSigned(bytes[1], 8)
      [] t = "U8" -> bytes[1]
      [] t = "I16" -> ToSigned(FromLE(bytes), 16)
      [] t = "U16" -> FromLE(bytes)
      [] t = "I32" -> I32Of(bytes)
      [] OTHER -> U32Of(bytes)

(***************************************************************************)
(* Visitors.  Three consumers drive the decoder:                           *)
(*   "ValueVisitor"   Value::deserialize: takes every element and entry    *)
(*   "StringVisitor"  String::deserialize: accepts text only               *)
(*   "Consumer"       any other typed consumer: builds the same values as  *)
(*                    ValueVisitor but decides itself, step by step, which *)
(*                    elements, keys and values of a List or Map it asks   *)
(*                    for, and when it returns                             *)
(***************************************************************************)
InvalidType == Err("Custom", 0)

\* what the visitor returns for a scalar or Hash leaf
VisitLeaf(visitor, t, x) ==
    IF visitor = "StringVisitor" THEN InvalidType ELSE Ok(Val(t, x))

\* visitor.visit_string(text)
VisitString(visitor, text) ==
    IF visitor = "StringVisitor" THEN Ok(Val("String", text)) ELSE visit_str(text)

(***************************************************************************)
(* ListDeserializer / MapDeserializer: one frame per List or Map being     *)
(* traversed.  `key`, `has_key`, `items` and `failed` are the visitor's    *)
(* side: the key it was last given, what it has collected, and the error   *)
(* it is about to return.  `at` is the offset last sought; count_pos (the  *)
(* stream position of the count field) and ref_position are the locals of  *)
(* the enclosing deserialize call.  `phase` is where that call stands:     *)
(*   "visit"    inside visitor.visit_seq / visit_map                       *)
(*   "catchup"  the visitor returned early and the last element is being   *)
(*              parsed as a Value                                          *)
(*   "caught"   that parse has returned `caught`                           *)
(***************************************************************************)
ListFrame(visitor, offsets, count_pos) ==
    [kind |-> "List", visitor |-> visitor, offsets |-> offsets, keys |-> <<>>,
     current |-> 0, current_key |-> 0, num_elements |-> Len(offsets), fields |-> {},
     count_pos |-> count_pos, ref_position |-> 0, phase |-> "visit", caught |-> NoResult,
     at |-> 0, key |-> 0, has_key |-> FALSE, items |-> <<>>,
     failed |-> IF visitor = "StringVisitor" THEN InvalidType ELSE NoResult]

MapFrame(visitor, keys, num_elements, fields, count_pos, ref_position) ==
    [kind |-> "Map", visitor |-> visitor, offsets |-> <<>>, keys |-> keys,
     current |-> 0, current_key |-> 0, num_elements |-> num_elements, fields |-> fields,
     count_pos |-> count_pos, ref_position |-> ref_position, phase |-> "visit",
     caught |-> NoResult,
     at |-> 0, key |-> 0, has_key |-> FALSE, items |-> <<>>,
     failed |-> IF visitor = "StringVisitor" THEN InvalidType ELSE NoResult]

Top(m) == m.stack[Len(m.stack)]
SetTop(m, f) == [m EXCEPT !.stack[Len(m.stack)] = f]
Pop(m) == [m EXCEPT !.stack = SubSeq(@, 1, Len(@) - 1)]
WithRd(m, rd) == [m EXCEPT !.rd = rd]
Push(m, rd, f) == [m EXCEPT !.rd = rd, !.stack = Append(@, f)]

\* A finished deserialize call hands its result to its caller: the top-level
\* caller (m.out), the catch-up of the enclosing List or Map,
\* next_element_seed of the enclosing List, or next_value_seed of the
\* enclosing Map.  A panic unwinds every frame.
Deliver(m, res) ==
    IF IsPanic(res) THEN [m EXCEPT !.stack = <<>>, !.out = Panic]
    ELSE IF Len(m.stack) = 0 THEN [m EXCEPT !.out = res]
    ELSE LET f == Top(m) IN
         IF f.phase = "catchup" THEN SetTop(m, [f EXCEPT !.phase = "caught", !.caught = res])
         ELSE IF f.kind = "List"
         THEN IF IsOk(res) THEN SetTop(m, [f EXCEPT !.items = Append(@, res[2])])
              ELSE SetTop(m, [f EXCEPT !.failed = tri("ParamId", f.at, res)])
         ELSE IF IsOk(res)
              THEN SetTop(m, [f EXCEPT !.items = IndexMapInsert(@, f.key, res[2]),
                                       !.current_key = f.current,
                                       !.has_key = FALSE])
              ELSE SetTop(m, [f EXCEPT !.failed = tri("Map", f.at, res)])

(***************************************************************************)
(* The Deserializer impl for &mut ValueDeserializer.  Each operator takes  *)
(* the machine m = [rd, stack, out] and returns it one step on: a call on  *)
(* a leaf ends and hands its result over with Deliver; a call on a List or *)
(* Map leaves the new frame on the stack, for its visitor to traverse.     *)
(***************************************************************************)
\* the known field names of deserialize_struct, as their hashes
Fields == {1}

\* read `count` u32 offsets: Ok(the offsets read) or the error of the first
\* read that fails, framed with the position of that read
RECURSIVE read_offsets(_, _, _, _)
read_offsets(rd, count, base_position, offsets) ==
    IF count = 0 THEN R(rd, Ok(offsets))
    ELSE LET r == read_uint(rd, 4) IN
         IF ~IsOk(r.res) THEN R(r.rd, tri("List", rd.pos, r.res))
         ELSE read_offsets(r.rd, count - 1, base_position,
                           Append(offsets, base_position + r.res[2]))

\* variant: the base position is the position of the count field
BasePositionAtCount(position) == position

\* the base position of a List or Map: one less than the stream position
\* after its tag was taken
BasePosition(position) == position - 1

\* the Hash arm once the table was consulted
hash_looked_up(m, index, hash, res) ==
    Deliver(WithRd(m, Logged(m.rd, <<"hash", index, hash, res>>)), res)

\* the Hash arm once the index was read (r)
hash_indexed(m, visitor, as_text, position, index, hash) ==
    hash_looked_up(m, index, hash,
                   IF ~IsOk(hash) THEN tri("Hash", position, Err("HashOutOfBounds", index))
                   ELSE IF as_text
                        THEN tri("Hash", position, VisitString(visitor, FormatHash(hash[2])))
                        ELSE tri("Hash", position, VisitLeaf(visitor, "Hash", hash[2])))

hash_read(m, visitor, as_text, r) ==
    IF ~IsOk(r.res) THEN Deliver(WithRd(m, r.rd), tri("Hash", m.rd.pos, r.res))
    ELSE hash_indexed(WithRd(m, r.rd), visitor, as_text, r.rd.pos, r.res[2],
                      hashes_get(r.rd.hashes, r.res[2]))

\* the Hash arm, shared by deserialize_any and deserialize_string: as_text
\* is TRUE when the hash is handed over as text (deserialize_string)
hash_arm(m, visitor, as_text) == hash_read(m, visitor, as_text, read_uint(m.rd, 4))

\* deserialize_map once the header was looked up (k); m.rd is at the count
map_opened(m, fields, visitor, num_elements, ref_position, position, k) ==
    IF ~IsOk(k.res) THEN Deliver(WithRd(m, k.rd), tri("Map", position, k.res))
    ELSE Push(m, k.rd, MapFrame(visitor, k.res[2], num_elements, fields, m.rd.pos,
                                ref_position))

\* deserialize_map once ref_position was read (p)
map_referenced(m, fields, visitor, num_elements, position, p) ==
    IF ~IsOk(p.res) THEN Deliver(WithRd(m, p.rd), tri("Map", position, p.res))
    ELSE map_opened(m, fields, visitor, num_elements, p.res[2], p.rd.pos,
                    get_map(p.rd, p.res[2], num_elements, BasePosition(m.rd.pos)))

\* deserialize_map once num_elements was read (c)
map_counted(m, fields, visitor, c) ==
    IF ~IsOk(c.res) THEN Deliver(WithRd(m, c.rd), tri("Map", m.rd.pos, c.res))
    ELSE map_referenced(m, fields, visitor, c.res[2], c.rd.pos, read_uint(c.rd, 4))

deserialize_map(m, fields, visitor) ==
    IF m.rd.pos = 0 THEN Deliver(m, Panic)
    ELSE map_counted(m, fields, visitor, read_uint(m.rd, 4))

\* the scalar arms once the payload was read (r)
scalar_arm(m, visitor, id, r) ==
    IF ~IsOk(r.res) THEN Deliver(WithRd(m, r.rd), tri(id, m.rd.pos, r.res))
    ELSE Deliver(WithRd(m, r.rd),
                 tri(id, r.rd.pos, VisitLeaf(visitor, id, DecodeScalar(id, r.res[2]))))

\* the String arm once the string was looked up (g)
string_got(m, visitor, g) ==
    IF ~IsOk(g.res) THEN Deliver(WithRd(m, g.rd), tri("String", m.rd.pos, g.res))
    ELSE Deliver(WithRd(m, g.rd), tri("String", g.rd.pos, VisitString(visitor, g.res[2])))

\* the String arm once ref_offset was read (r)
string_arm(m, visitor, r) ==
    IF ~IsOk(r.res) THEN Deliver(WithRd(m, r.rd), tri("String", m.rd.pos, r.res))
    ELSE string_got(WithRd(m, r.rd), visitor, get_string(r.rd, r.res[2]))

\* the List arm once the offsets were read (o); m.rd is at the count
list_opened(m, visitor, o) ==
    IF ~IsOk(o.res) THEN Deliver(WithRd(m, o.rd), o.res)
    ELSE Push(m, o.rd, ListFrame(visitor, o.res[2], m.rd.pos))

\* the List arm once num_elements was read (c)
list_counted(m, visitor, c) ==
    IF ~IsOk(c.res) THEN Deliver(WithRd(m, c.rd), tri("List", m.rd.pos, c.res))
    ELSE list_opened(m, visitor, read_offsets(c.rd, c.res[2], BasePosition(m.rd.pos), <<>>))

list_arm(m, visitor) ==
    IF m.rd.pos = 0 THEN Deliver(m, Panic)
    ELSE list_counted(m, visitor, read_uint(m.rd, 4))

\* deserialize_any once the tag was taken
any_arm(m, visitor, id) ==
    CASE id \in Scalars -> scalar_arm(m, visitor, id, read_exact(m.rd, ScalarWidth(id)))
      [] id = "Hash" -> hash_arm(m, visitor, FALSE)
      [] id = "String" -> string_arm(m, visitor, read_uint(m.rd, 4))
      [] id = "List" -> list_arm(m, visitor)
      [] id = "Map" -> deserialize_map(m, {}, visitor)

any_tagged(m, visitor, n) ==
    IF ~IsOk(n.res) THEN Deliver(WithRd(m, n.rd), n.res)
    ELSE any_arm(WithRd(m, n.rd), visitor, n.res[2])

deserialize_any(m, visitor) == any_tagged(m, visitor, next_param_id(m.rd))

\* deserialize_string once the tag was peeked (n)
string_peeked(m, n) ==
    IF ~IsOk(n.res) THEN Deliver(WithRd(m, n.rd), n.res)
    ELSE IF n.res[2] = "Hash" THEN hash_arm(WithRd(m, n.rd), "StringVisitor", TRUE)
         ELSE deserialize_any(WithRd(m, n.rd), "StringVisitor")

deserialize_string(m) == string_peeked(m, peek_param_id(m.rd))

\* deserialize_struct once the tag was peeked (n)
struct_peeked(m, fields, n) ==
    IF ~IsOk(n.res) THEN Deliver(WithRd(m, n.rd), n.res)
    ELSE IF n.res[2] = "Map"
         THEN deserialize_map(WithRd(m, next_param_id(n.rd).rd), fields, "Consumer")
         ELSE deserialize_any(WithRd(m, n.rd), "Consumer")

deserialize_struct(m, fields) == struct_peeked(m, fields, peek_param_id(m.rd))

\* T::deserialize(&mut deserializer) for the four kinds of T, up to the
\* point where the visitor of a List or Map takes over
Modes == {"value", "any", "string", "struct"}
Deserialize(m, mode) ==
    CASE mode = "value" -> deserialize_any(m, "ValueVisitor")
      [] mode = "any" -> deserialize_any(m, "Consumer")
      [] mode = "string" -> deserialize_string(m)
      [] mode = "struct" -> deserialize_struct(m, Fields)

\* SeqAccess::next_element_seed (the caller has seen current < offsets.len())
next_element_seed(m, mode) ==
    LET f == Top(m)
        offset == f.offsets[f.current + 1]
    IN Deserialize([m EXCEPT !.rd = seek(m.rd, offset),
                             !.stack[Len(m.stack)] = [f EXCEPT !.current = @ + 1, !.at = offset]],
                   mode)

\* MapAccess::next_key_seed (the caller has seen current < keys.len())
next_key_seed(m) ==
    LET f == Top(m) IN
    SetTop(m, [f EXCEPT !.key = f.keys[f.current + 1][1], !.has_key = TRUE,
                        !.current_key = f.current, !.current = @ + 1])

\* MapAccess::next_value_seed
next_value_seed(m, mode) ==
    LET f == Top(m) IN
    IF f.current_key = f.current
    THEN SetTop(m, [f EXCEPT !.failed = Err("Custom", 1)])
    ELSE LET offset == f.keys[f.current_key + 1][2] IN
         Deserialize([m EXCEPT !.rd = seek(m.rd, offset),
                               !.stack[Len(m.stack)] = [f EXCEPT !.at = offset]],
                     mode)

\* what the visitor of the frame returns
VisitorResult(f) == IF f.failed # NoResult THEN f.failed ELSE Ok(Val(f.kind, f.items))

\* the offset of the last element of a List, of the last value of a Map
LastOffset(f) ==
    IF f.kind = "List" THEN f.offsets[Len(f.offsets)] ELSE f.keys[Len(f.keys)][2]

\* The visitor has returned: the rest of the List arm of deserialize_any and
\* of deserialize_map.  When the visitor stopped early the cursor is put at
\* the last element, which is then parsed as a Value.
Finish(m) ==
    LET f == Top(m) IN
    IF f.current < f.num_elements
    THEN IF f.kind = "Map" /\ Len(f.keys) = 0 THEN Deliver(Pop(m), Panic)
         ELSE deserialize_any([m EXCEPT !.rd = seek(m.rd, LastOffset(f)),
                                        !.stack[Len(m.stack)] = [f EXCEPT !.phase = "catchup"]],
                              "ValueVisitor")
    ELSE Deliver(Pop(m), tri(f.kind, m.rd.pos, VisitorResult(f)))

\* the catch-up parse has returned: its error, or the visitor's result
FinishCaught(m) ==
    LET f == Top(m) IN
    IF IsErr(f.caught) THEN Deliver(Pop(m), tri(f.kind, LastOffset(f), f.caught))
    ELSE Deliver(Pop(m), tri(f.kind, m.rd.pos, VisitorResult(f)))

\* one step of ValueVisitor::visit_seq / visit_map on the top frame
ValueVisitorStep(m) ==
    LET f == Top(m) IN
    IF f.failed # NoResult THEN Finish(m)
    ELSE IF f.kind = "List"
         THEN IF f.current < Len(f.offsets) THEN next_element_seed(m, "value") ELSE Finish(m)
         ELSE IF f.has_key THEN next_value_seed(m, "value")
              ELSE IF f.current < Len(f.keys) THEN next_key_seed(m) ELSE Finish(m)

\* whether the library, not a typed consumer, has the next move
Running(m) ==
    /\ Len(m.stack) > 0
    /\ \/ Top(m).phase = "caught"
       \/ Top(m).phase = "visit" /\ Top(m).visitor # "Consumer"

\* the library's next move: a catch-up ends, or ValueVisitor (or the
\* visitor of a String, which rejects a List or Map at once) goes on
Step(m) ==
    IF Top(m).phase = "caught" THEN FinishCaught(m)
    ELSE IF Top(m).visitor = "StringVisitor" THEN Finish(m)
    ELSE ValueVisitorStep(m)

\* the library runs until a typed consumer has the next move or the
\* top-level call has returned
RECURSIVE Run(_)
Run(m) == IF Running(m) THEN Run(Step(m)) ELSE m

\* what the finished run hands back: the reader and the result
Returned(m) == R(m.rd, m.out)

\* Value::deserialize on a reader, run to its end
ValueDeserialize(rd) ==
    Returned(Run(deserialize_any([rd |-> rd, stack |-> <<>>, out |-> NoResult],
                                 "ValueVisitor")))

(***************************************************************************)
(* lib.rs: from_reader.  The header is read with unwrap and assert_eq!, so *)
(* a document that is short, has another signature or a hash-table length  *)
(* that is no multiple of 8 panics.                                        *)
(***************************************************************************)
RECURSIVE read_hashes(_, _)
read_hashes(bytes, count) ==
    IF count = 0 THEN <<>>
    ELSE <<Unsigned(SubSeq(bytes, 1, 8))>> \o read_hashes(SubSeq(bytes, 9, Len(bytes)), count - 1)

\* the file_offset from_reader hands to ReferenceData::new
FileOffset(hash_data_size) == 8 + hash_data_size

\* the deserializer from_reader builds, or Panic
from_reader_header(bytes) ==
    IF Len(bytes) < 16 \/ SubSeq(bytes, 1, 8) # Magic THEN Panic
    ELSE LET hash_data_size == Unsigned(SubSeq(bytes, 9, 12))
             ref_data_size == Unsigned(SubSeq(bytes, 13, 16))
         IN IF hash_data_size % 8 # 0 \/ Len(bytes) - 16 < hash_data_size
               \/ Len(bytes) - 16 - hash_data_size < ref_data_size
            THEN Panic
            ELSE Ok(NewReader(bytes, 16 + hash_data_size + ref_data_size,
                              read_hashes(SubSeq(bytes, 17, 16 + hash_data_size),
                                          hash_data_size \div 8),
                              SubSeq(bytes, 17 + hash_data_size,
                                     16 + hash_data_size + ref_data_size),
                              FileOffset(hash_data_size)))

(***************************************************************************)
(* ser.rs: MapSerializer.  ms = [map, current_key]; a call gives the       *)
(* serializer as it leaves it and the Result it returns.                   *)
(***************************************************************************)
\* "attempting to serialize value with no key"
NoKey == Err("Custom", 2)
UnsupportedKeyType == Err("UnsupportedKeyType", 0)
UnsupportedValueType == Err("UnsupportedValueType", 0)

\* IntoValueSerializer::serialize_map
NewMapSerializer == [map |-> <<>>, current_key |-> NoResult]

Called(ms, out) == [ms |-> ms, out |-> out]

\* key.serialize(HashSerializer) for a u64 and for a bool
HashSerializer(key) ==
    IF Kind(key) = "u64" THEN Ok(Body(key)) ELSE UnsupportedKeyType

\* value.serialize(IntoValueSerializer) for a Value and for a char
IntoValueSerializer(value) ==
    IF Kind(value) = "char" THEN UnsupportedValueType ELSE Ok(serialize(value))

serialize_key_hashed(ms, key) ==
    IF IsErr(key) THEN Called(ms, key)
    ELSE Called([ms EXCEPT !.current_key = Some(key[2])], Ok(<<>>))
serialize_key(ms, key) == serialize_key_hashed(ms, HashSerializer(key))

\* variant: the pending key is left in place
serialize_value_keeping(ms, value) ==
    IF IsErr(value) THEN Called(ms, value)
    ELSE Called([ms EXCEPT !.map = IndexMapInsert(@, ms.current_key[2], value[2])],
                Ok(<<>>))

serialize_value_converted(ms, value) ==
    IF IsErr(value) THEN Called(ms, value)
    ELSE Called([map |-> IndexMapInsert(ms.map, ms.current_key[2], value[2]),
                 current_key |-> NoResult], Ok(<<>>))
serialize_value(ms, value) ==
    IF ms.current_key = NoResult THEN Called(ms, NoKey)
    ELSE serialize_value_converted(ms, IntoValueSerializer(value))

\* SerializeMap::end
end(ms) == Ok(Val("Map", ms.map))

(***************************************************************************)
(* The values and byte streams the operations are exercised on.            *)
(***************************************************************************)
\* the longest List or Map among the encoded trees
MaxLen == 2
\* the most values laid one after the other in a stream
MaxTops == 2
\* the most top-level deserialize calls made on one deserializer
MaxDecodes == 2
\* the most serialize_key and serialize_value calls made on one MapSerializer
MaxCalls == 4

\* what serialize_key is handed: two u64 and a bool
KeyInputs == {Val("u64", 1), Val("u64", 2), Val("bool", TRUE)}
\* what serialize_value is handed: Values and a char
ValueInputs ==
    {Val("I8", 5), Val("Map", << <<1, Val("Bool", TRUE)>> >>), Val("char", 0)}

\* all sequences over S of length 0..n
SeqsUpTo(S, n) == UNION {[1..k -> S] : k \in 0..n}

\* IndexMap contents: entries with pairwise distinct keys
MapsUpTo(K, S, n) ==
    {map \in SeqsUpTo(K \X S, n) :
        \A i, j \in DOMAIN map : i # j => map[i][1] # map[j][1]}

\* "a", "ab", the text of a hash literal, and a text with a non-ASCII byte
TextA == <<97>>
TextAB == <<97, 98>>
TextHashLiteral == FormatHash(1)
TextNotAscii == <<102, 194, 182>>

ScalarLeaves ==
    {Val("Bool", TRUE), Val("Bool", FALSE), Val("I8", 33), Val("I8", -128),
     Val("U8", 192), Val("I16", 16374), Val("I16", -3357), Val("U16", 39847),
     Val("I32", 432143212), Val("I32", -34214321), Val("U32", 70000),
     Val("F32", 1163293696)}

Leaves ==
    {Val("Bool", TRUE), Val("I8", -128), Val("I16", -3357), Val("Hash", 5),
     Val("String", <<>>), Val("String", TextA), Val("String", TextAB),
     Val("String", TextHashLiteral), Val("String", TextNotAscii)}

Inner ==
    {Val("Map", <<>>),
     Val("Map", << <<1, Val("Bool", TRUE)>> >>),
     Val("Map", << <<1, Val("Map", << <<2, Val("I8", 33)>> >>)>> >>),
     Val("Map", << <<1, Val("Map", << <<3, Val("I8", 33)>> >>)>> >>),
     Val("List", <<>>),
     Val("List", <<Val("Bool", TRUE)>>)}

\* Lists of two Maps with the same keys: the same values, other values of
\* the same sizes, and values of other sizes
TwinMaps ==
    {Val("List", <<Val("Map", << <<1, Val("Bool", TRUE)>> >>),
                   Val("Map", << <<1, Val("Bool", FALSE)>> >>)>>),
     Val("List", <<Val("Map", << <<1, Val("I8", 33)>>, <<2, Val("String", TextA)>> >>),
                   Val("Map", << <<1, Val("U8", 192)>>, <<2, Val("Hash", 5)>> >>)>>),
     Val("List", <<Val("Map", << <<1, Val("Bool", TRUE)>>, <<2, Val("I8", 33)>> >>),
                   Val("Map", << <<1, Val("I16", -3357)>>, <<2, Val("I8", 33)>> >>)>>),
     Val("List", <<Val("Map", << <<1, Val("Bool", TRUE)>>, <<2, Val("I8", 33)>> >>),
                   Val("Map", << <<2, Val("I8", 33)>>, <<1, Val("Bool", TRUE)>> >>)>>),
     \* the first two with their Maps the other way round
     Val("List", <<Val("Map", << <<1, Val("Bool", FALSE)>> >>),
                   Val("Map", << <<1, Val("Bool", TRUE)>> >>)>>),
     Val("List", <<Val("Map", << <<1, Val("U8", 192)>>, <<2, Val("Hash", 5)>> >>),
                   Val("Map", << <<1, Val("I8", 33)>>, <<2, Val("String", TextA)>> >>)>>)}

\* the trees handed to to_vec
DocValues ==
    ScalarLeaves \cup Leaves \cup Inner \cup TwinMaps
    \cup {Val("List", body) : body \in SeqsUpTo(Leaves \cup Inner, MaxLen)}
    \cup {Val("Map", body) : body \in MapsUpTo({1, 2}, Leaves \cup Inner, MaxLen)}

\* every String of the tree is ASCII
RECURSIVE AllAscii(_)
AllAscii(value) ==
    CASE Kind(value) = "String" -> \A i \in DOMAIN Body(value) : ~NotAscii(Body(value)[i])
      [] Kind(value) = "List" -> \A i \in DOMAIN Body(value) : AllAscii(Body(value)[i])
      [] Kind(value) = "Map" -> \A i \in DOMAIN Body(value) : AllAscii(Body(value)[i][2])
      [] OTHER -> TRUE

\* the values a typed consumer is pointed at
ReaderValues ==
    {Val("Bool", TRUE), Val("Hash", 5), Val("String", TextA),
     Val("List", <<Val("Hash", 5), Val("Bool", TRUE)>>),
     Val("List", <<Val("I16", -3357), Val("String", TextA)>>),
     Val("List", <<Val("List", <<Val("Hash", 5), Val("Bool", TRUE)>>)>>),
     Val("Map", <<>>),
     Val("Map", << <<1, Val("Bool", TRUE)>> >>),
     Val("Map", << <<1, Val("Hash", 5)>>, <<2, Val("I16", -3357)>> >>),
     Val("Map", << <<2, Val("List", <<Val("I8", 33), Val("Bool", TRUE)>>)>> >>)}

\* A stream as the tests build one: the values written one after the other,
\* with the hash table and reference blob of the passes over all of them
StreamOf(tops) ==
    LET all == Val("List", tops) IN
    [stream |-> write_values(hash_lookup(all), string_pass(all).lookup,
                             struct_pass(all).lookup, tops).bytes,
     hashes |-> hash_lookup(all), raw |-> reference_data(all), tops |-> tops]

WrittenStreams ==
    {StreamOf(tops) : tops \in SeqsUpTo(ReaderValues, MaxTops) \ {<<>>}}

\* tests.rs: deserialize_list
ListData ==
    <<11, 4, 0, 0, 0, 22, 0, 0, 0, 27, 0, 0, 0, 32, 0, 0, 0, 37, 0, 0, 0, 0,
      6, 6, 0, 0, 0, 6, 1, 0, 0, 0, 6, 12, 0, 0, 0, 1, 1,
      11, 3, 0, 0, 0, 17, 0, 0, 0, 22, 0, 0, 0, 27, 0, 0, 0,
      6, 19, 0, 0, 0, 6, 128, 0, 0, 0, 6, 255, 255, 255, 255>>

\* tests.rs: b"foo!\0bar...\0baz???" and REF_BYTES_4
ReferenceBytes ==
    <<102, 111, 111, 33, 0, 98, 97, 114, 46, 46, 46, 0, 98, 97, 122, 63, 63, 63>>
RefBytes4 == <<102, 97, 122, 182, 0>>

\* tests.rs: decl_value_tests!, two scalars to a stream, with Bool bytes
\* other than 0 and 1, the ends of the ranges and a payload cut short
ScalarData ==
    {<<1, 0, 1, 1>>, <<1, 2, 1, 255>>,
     <<2, 33, 2, 128>>, <<2, 127, 2, 255>>,
     <<3, 192, 3, 0>>,
     <<4, 246, 63, 4, 227, 242>>, <<4, 0, 128, 4, 255, 127>>,
     <<5, 167, 155, 5, 255, 255>>,
     <<6, 108, 251, 193, 25, 6, 79, 238, 245, 253>>,
     <<6, 0, 0, 0, 128, 6, 255, 255, 255, 255>>,
     <<7, 112, 17, 1, 0, 7, 255, 255, 255, 127>>,
     <<6, 108, 251>>}

Hand(stream, hashes, raw) == [stream |-> stream, hashes |-> hashes, raw |-> raw, tops |-> <<>>]

\* streams written by hand: those of tests.rs, and malformed ones
HandStreams ==
    {Hand(stream, <<>>, <<>>) : stream \in ScalarData} \cup
    {Hand(ListData, <<>>, <<>>),
     Hand(<<9, 0, 0, 0, 0, 9, 1, 0, 0, 0>>, <<7, 8>>, <<>>),
     Hand(<<9, 2, 0, 0, 0, 9, 1, 0, 0, 0>>, <<7, 8>>, <<>>),
     Hand(<<10, 0, 0, 0, 0, 10, 5, 0, 0, 0>>, <<>>, ReferenceBytes),
     Hand(<<10, 12, 0, 0, 0, 10, 5, 0, 0, 0>>, <<>>, ReferenceBytes),
     Hand(<<10, 18, 0, 0, 0, 10, 11, 0, 0, 0>>, <<>>, ReferenceBytes),
     Hand(<<10, 0, 0, 0, 0, 10, 2, 0, 0, 0>>, <<>>, RefBytes4),
     Hand(<<0, 13, 1>>, <<>>, <<>>),
     \* a Map whose second header entry names hash 3 of a table of two
     Hand(<<12, 2, 0, 0, 0, 0, 0, 0, 0, 1, 1, 1, 0>>, <<7, 8>>,
          <<0, 0, 0, 0, 9, 0, 0, 0, 3, 0, 0, 0, 11, 0, 0, 0>>),
     \* a Map whose header lies outside the reference blob
     Hand(<<12, 1, 0, 0, 0, 4, 0, 0, 0, 1, 1>>, <<7>>, <<0, 0, 0, 0, 9, 0, 0, 0>>)}

\* the most requests made of one Map
MaxRequests == 4

\* a Map whose only value is a Hash with an index outside the table
HashlessMap ==
    Hand(<<12, 1, 0, 0, 0, 0, 0, 0, 0, 9, 5, 0, 0, 0>>, <<7>>, <<0, 0, 0, 0, 9, 0, 0, 0>>)

\* the streams that start with a Map
MapStreams == {s \in WrittenStreams \cup {HashlessMap} : s.stream[1] = ParamIdOf("Map")}

\* the targets and sources of merge: a leaf of every kind, integers at and
\* around the ends of every integer range, and Lists and Maps that differ
\* in length, in keys and in the kinds of their elements
IntegerSources ==
    {Val("I8", -128), Val("I8", -1), Val("I8", 5), Val("I8", 127),
     Val("U8", 5), Val("U8", 200), Val("U8", 255),
     Val("I16", -32768), Val("I16", -129), Val("I16", -1), Val("I16", 5),
     Val("I16", 128), Val("I16", 256),
     Val("U16", 5), Val("U16", 300), Val("U16", 40000),
     Val("I32", -40000), Val("I32", -1), Val("I32", 5), Val("I32", 1000),
     Val("I32", 70000),
     Val("U32", 5), Val("U32", 1000), Val("U32", 70000)}

OtherLeaves ==
    {Val("Bool", FALSE), Val("F32", 1163293696), Val("Hash", 6), Val("String", TextAB)}

MergeTargets ==
    {Val("Bool", TRUE), Val("I8", 7), Val("U8", 7), Val("I16", 7), Val("U16", 7),
     Val("I32", 7), Val("U32", 7), Val("F32", 0), Val("Hash", 5), Val("String", TextA),
     Val("List", <<>>),
     Val("List", <<Val("I8", 7)>>),
     Val("List", <<Val("I8", 7), Val("Bool", TRUE)>>),
     Val("List", <<Val("Map", << <<1, Val("U16", 7)>> >>), Val("List", <<Val("U8", 7)>>)>>),
     Val("Map", <<>>),
     Val("Map", << <<1, Val("I8", 7)>>, <<2, Val("String", TextA)>> >>),
     Val("Map", << <<2, Val("List", <<Val("I16", 7), Val("Hash", 5)>>)>> >>)}

MergeSources ==
    IntegerSources \cup OtherLeaves \cup
    {Val("List", <<>>),
     Val("List", <<Val("I32", 5)>>),
     Val("List", <<Val("I32", 1000), Val("Bool", FALSE), Val("Hash", 6)>>),
     Val("List", <<Val("Map", << <<2, Val("U8", 1)>>, <<1, Val("I8", -1)>> >>),
                   Val("List", <<Val("I32", 5), Val("I32", 6)>>)>>),
     Val("Map", <<>>),
     Val("Map", << <<3, Val("I8", 1)>>, <<2, Val("String", TextAB)>>, <<1, Val("I32", 5)>> >>),
     Val("Map", << <<1, Val("Bool", FALSE)>> >>),
     Val("Map", << <<2, Val("List", <<Val("I32", 5)>>)>> >>)}

(***************************************************************************)
(* The state.                                                              *)
(*   input    what the run works on: a tree handed to to_vec ("document"), *)
(*            or a stream a deserializer is built over ("stream")          *)
(*   doc      the result of to_vec                                         *)
(*   de       the reader state of the ValueDeserializer                    *)
(*   stack    the List and Map accesses a consumer has open, outermost     *)
(*            first                                                        *)
(*   results  what the top-level deserialize calls returned, in order      *)
(*   reenc    the result of to_vec on the decoded tree                     *)
(*   pc       "start", "written", "decoded", "reencoded" for a document;   *)
(*            "reading" for a stream; "panicked" after a panic             *)
(*   call     history of the current top-level deserialize call: its mode, *)
(*            the reader state it started from and, once the consumer of a *)
(*            top-level List or Map has returned, what it had asked for    *)
(*   access   the requests a consumer that goes on after an error has     *)
(*            made of a top-level Map, each with what it returned and      *)
(*            where the cursor was before and after                        *)
(*   merging  the target and source of Value::merge, and the target after  *)
(*   map_serializer  a MapSerializer and what its last call returned       *)
(***************************************************************************)
VARIABLES input, doc, de, stack, results, reenc, pc, call,
          access, merging, map_serializer

vars == <<input, doc, de, stack, results, reenc, pc, call,
          access, merging, map_serializer>>

NoReader == NewReader(<<>>, 0, <<>>, <<>>, 0)

NoCall ==
    [mode |-> None, start |-> NoReader, kind |-> None, current |-> 0,
     num_elements |-> 0, has_key |-> FALSE, returned |-> FALSE]

\* no merge under way, no MapSerializer built
NoMerge == [target |-> None, source |-> None, merged |-> None]
NoMapSerializer == [map |-> <<>>, current_key |-> NoResult, returned |-> <<>>]

InitCommon ==
    /\ doc = WOk(<<>>)
    /\ reenc = WOk(<<>>)
    /\ stack = <<>>
    /\ results = <<>>
    /\ call = NoCall
    /\ access = <<>>

\* a tree about to be encoded
InitCodec ==
    /\ input \in {[kind |-> "document", tops |-> <<value>>] : value \in DocValues}
    /\ de = NoReader
    /\ pc = "start"
    /\ InitCommon
    /\ merging = NoMerge
    /\ map_serializer = NoMapSerializer

\* ValueDeserializer::new over a stream, as the tests build it
InitReader ==
    /\ \E s \in WrittenStreams \cup HandStreams :
          /\ input = [kind |-> "stream", tops |-> s.tops]
          /\ de = NewReader(s.stream, 0, s.hashes, s.raw, 0)
    /\ pc = "reading"
    /\ InitCommon
    /\ merging = NoMerge
    /\ map_serializer = NoMapSerializer

\* the machine an operation starts from
Machine == [rd |-> [de EXCEPT !.log = <<>>], stack |-> stack, out |-> NoResult]

\* the state an operation of the deserializer leaves
Settle(m) ==
    /\ de' = m.rd
    /\ stack' = m.stack
    /\ results' = IF m.out = NoResult THEN results ELSE Append(results, m.out)
    /\ pc' = IF IsPanic(m.out) THEN "panicked" ELSE pc

\* to_vec(&value)
Write ==
    /\ pc = "start"
    /\ doc' = to_vec(input.tops[1])
    /\ pc' = IF doc'.panic THEN "panicked" ELSE "written"
    /\ UNCHANGED <<access, merging, map_serializer, input, de, stack, results, reenc, call>>

\* the state T::deserialize leaves in from_reader
FromSliceReturns(m) ==
    /\ de' = m.rd
    /\ results' = <<m.out>>
    /\ pc' = IF IsPanic(m.out) THEN "panicked" ELSE "decoded"

\* from_slice::<Value>(&doc)
FromSlice ==
    /\ pc = "written"
    /\ IF IsPanic(from_reader_header(doc.bytes))
       THEN /\ pc' = "panicked"
            /\ results' = <<Panic>>
            /\ UNCHANGED <<de, call>>
       ELSE /\ FromSliceReturns(Run(Deserialize(
                    [rd |-> from_reader_header(doc.bytes)[2], stack |-> <<>>,
                     out |-> NoResult], "value")))
            /\ call' = [NoCall EXCEPT !.mode = "value",
                                      !.start = from_reader_header(doc.bytes)[2],
                                      !.returned = TRUE]
    /\ UNCHANGED <<access, merging, map_serializer, input, doc, stack, reenc>>

\* to_vec(&decoded)
ReEncode ==
    /\ pc = "decoded"
    /\ IsOk(results[1])
    /\ reenc' = to_vec(results[1][2])
    /\ pc' = "reencoded"
    /\ UNCHANGED <<access, merging, map_serializer, input, doc, de, stack, results, call>>

\* T::deserialize(&mut deserializer) by the owner of the deserializer
DeserializeTop(mode) ==
    /\ pc = "reading"
    /\ stack = <<>>
    /\ Len(results) < MaxDecodes
    /\ Settle(Run(Deserialize(Machine, mode)))
    /\ call' = [NoCall EXCEPT !.mode = mode, !.start = Machine.rd,
                              !.returned = (stack' = <<>>)]
    /\ UNCHANGED <<access, merging, map_serializer, input, doc, reenc>>

\* seq.next_element::<T>() by the consumer of the innermost open List
NextElement(mode) ==
    /\ pc = "reading"
    /\ stack # <<>>
    /\ Top(Machine).kind = "List"
    /\ Top(Machine).failed = NoResult
    /\ Top(Machine).current < Len(Top(Machine).offsets)
    /\ Settle(Run(next_element_seed(Machine, mode)))
    /\ UNCHANGED <<access, merging, map_serializer, input, doc, reenc, call>>

\* map.next_key::<Hash40>() by the consumer of the innermost open Map
NextKey ==
    /\ pc = "reading"
    /\ stack # <<>>
    /\ Top(Machine).kind = "Map"
    /\ Top(Machine).failed = NoResult
    /\ Top(Machine).current < Len(Top(Machine).keys)
    /\ Settle(next_key_seed(Machine))
    /\ UNCHANGED <<access, merging, map_serializer, input, doc, reenc, call>>

\* map.next_value::<T>() by the consumer of the innermost open Map
NextValue(mode) ==
    /\ pc = "reading"
    /\ stack # <<>>
    /\ Top(Machine).kind = "Map"
    /\ Top(Machine).failed = NoResult
    /\ Settle(Run(next_value_seed(Machine, mode)))
    /\ UNCHANGED <<access, merging, map_serializer, input, doc, reenc, call>>

\* the consumer of the innermost open List or Map returns
Return ==
    /\ pc = "reading"
    /\ stack # <<>>
    /\ Settle(Run(Finish(Machine)))
    /\ call' = IF Len(stack) = 1
               THEN [call EXCEPT !.kind = Top(Machine).kind,
                                 !.current = Top(Machine).current,
                                 !.num_elements = Top(Machine).num_elements,
                                 !.has_key = Top(Machine).has_key,
                                 !.returned = TRUE]
               ELSE call
    /\ UNCHANGED <<access, merging, map_serializer, input, doc, reenc>>

NextCodec == Write \/ FromSlice \/ ReEncode

NextReader ==
    \/ \E mode \in Modes : DeserializeTop(mode)
    \/ \E mode \in Modes : NextElement(mode)
    \/ NextKey
    \/ \E mode \in Modes : NextValue(mode)
    \/ Return

\* the machine of a consumer that goes on after an error it was returned
Resumed == SetTop(Machine, [Top(Machine) EXCEPT !.failed = NoResult])

\* MapAccess::next_key_seed, whatever the caller has seen
next_key_request(m) ==
    IF Top(m).current >= Len(Top(m).keys) THEN m ELSE next_key_seed(m)

\* what next_key_seed returns on the frame f
KeyReturned(f) ==
    IF f.current >= Len(f.keys) THEN Ok(NoResult) ELSE Ok(Some(f.keys[f.current + 1][1]))

\* what next_value_seed has returned, f being the frame it left: its error,
\* or the value the consumer has put under the key it was last given
ValueReturned(f) ==
    IF f.failed # NoResult THEN f.failed
    ELSE Ok((CHOOSE e \in Range(f.items) : e[1] = f.key)[2])

\* a request as the history keeps it
Request(op, mode, returned, before, after) ==
    [op |-> op, mode |-> mode, returned |-> returned, before |-> before, after |-> after]

\* ValueDeserializer::new over a stream that starts with a Map
InitMapAccess ==
    /\ \E s \in MapStreams :
          /\ input = [kind |-> "stream", tops |-> s.tops]
          /\ de = NewReader(s.stream, 0, s.hashes, s.raw, 0)
    /\ pc = "reading"
    /\ InitCommon
    /\ merging = NoMerge
    /\ map_serializer = NoMapSerializer

\* a consumer takes the Map at the start of the stream with deserialize_any
OpenMap ==
    /\ results = <<>>
    /\ DeserializeTop("any")

\* map.next_key::<Hash40>(), whatever was asked before
RequestKey ==
    /\ pc = "reading"
    /\ Len(stack) = 1
    /\ Top(Machine).kind = "Map"
    /\ Len(access) < MaxRequests
    /\ Settle(next_key_request(Resumed))
    /\ access' = Append(access, Request("next_key", None, KeyReturned(Top(Resumed)),
                                        de.pos, de'.pos))
    /\ UNCHANGED <<merging, map_serializer, input, doc, reenc, call>>

\* map.next_value::<T>(), whatever was asked before
RequestValue(mode) ==
    /\ pc = "reading"
    /\ Len(stack) = 1
    /\ Top(Machine).kind = "Map"
    /\ Len(access) < MaxRequests
    /\ Settle(Run(next_value_seed(Resumed, mode)))
    /\ access' = Append(access, Request("next_value", mode,
                                        IF stack' = <<>> THEN Panic
                                        ELSE ValueReturned(stack'[1]),
                                        de.pos, de'.pos))
    /\ UNCHANGED <<merging, map_serializer, input, doc, reenc, call>>

NextMapAccess ==
    \/ OpenMap
    \/ RequestKey
    \/ \E mode \in {"value", "string"} : RequestValue(mode)
    \/ Return

\* a consumer makes next-key and next-value requests of a Map in any order
SpecMapAccess == InitMapAccess /\ [][NextMapAccess]_vars

\* a target and a source about to be merged
InitMerge ==
    /\ \E target \in MergeTargets, source \in MergeSources :
          merging = [target |-> target, source |-> source, merged |-> None]
    /\ input = [kind |-> "merge", tops |-> <<>>]
    /\ de = NoReader
    /\ pc = "merging"
    /\ InitCommon
    /\ map_serializer = NoMapSerializer

\* target.merge(&source)
Merge ==
    /\ pc = "merging"
    /\ merging' = [merging EXCEPT !.merged = merge(merging.target, merging.source)]
    /\ pc' = "merged"
    /\ UNCHANGED <<access, map_serializer, input, doc, de, stack, results, reenc, call>>

NextMerge == Merge

\* the serializer of map_serializer
Serializer == [map |-> map_serializer.map, current_key |-> map_serializer.current_key]

\* the call as the history keeps it: what was called with what, what it
\* returned, the serializer before and after
CallRecord(op, arg, called) ==
    [op |-> op, arg |-> arg, out |-> called.out, before |-> Serializer, after |-> called.ms]

AfterCall(op, arg, called) ==
    map_serializer' = [map |-> called.ms.map, current_key |-> called.ms.current_key,
                       returned |-> Append(map_serializer.returned,
                                           CallRecord(op, arg, called))]

\* IntoValueSerializer.serialize_map(None)
InitMapSerializer ==
    /\ map_serializer = [map |-> NewMapSerializer.map,
                         current_key |-> NewMapSerializer.current_key,
                         returned |-> <<>>]
    /\ input = [kind |-> "entries", tops |-> <<>>]
    /\ de = NoReader
    /\ pc = "serializing"
    /\ InitCommon
    /\ merging = NoMerge

SerializeKey ==
    /\ pc = "serializing"
    /\ Len(map_serializer.returned) < MaxCalls
    /\ \E key \in KeyInputs :
          AfterCall("serialize_key", key, serialize_key(Serializer, key))
    /\ UNCHANGED <<access, merging, input, doc, de, stack, results, reenc, pc, call>>

SerializeValue ==
    /\ pc = "serializing"
    /\ Len(map_serializer.returned) < MaxCalls
    /\ \E value \in ValueInputs :
          AfterCall("serialize_value", value, serialize_value(Serializer, value))
    /\ UNCHANGED <<access, merging, input, doc, de, stack, results, reenc, pc, call>>

End ==
    /\ pc = "serializing"
    /\ results' = <<end(Serializer)>>
    /\ pc' = "ended"
    /\ UNCHANGED <<access, merging, map_serializer, input, doc, de, stack, reenc, call>>

NextMapSerializer == SerializeKey \/ SerializeValue \/ End

\* serialize_key and serialize_value calls on one MapSerializer, then end
SpecMapSerializer == InitMapSerializer /\ [][NextMapSerializer]_vars

\* one merge of a source into a target
SpecMerge == InitMerge /\ [][NextMerge]_vars

\* encoding a tree, decoding the document as a Value, encoding again
SpecCodec == InitCodec /\ [][NextCodec]_vars

\* typed consumers driving a deserializer over a stream
SpecReader == InitReader /\ [][NextReader]_vars

(***************************************************************************)
(* Properties.                                                             *)
(***************************************************************************)
TheTree == input.tops[1]

RECURSIVE SubValues(_)
SubValues(value) ==
    {value} \cup
    CASE Kind(value) = "List" -> UNION {SubValues(Body(value)[i]) : i \in DOMAIN Body(value)}
      [] Kind(value) = "Map" -> UNION {SubValues(Body(value)[i][2]) : i \in DOMAIN Body(value)}
      [] OTHER -> {}

NoF32(value) == \A sub \in SubValues(value) : Kind(sub) # "F32"

Decoded == pc \in {"decoded", "reencoded"}

\* C1: a tree of Bool, integer, Hash, ASCII String, List and Map nodes is
\* encoded without a panic, and the document decodes, as a Value, to Ok of a
\* tree equal to it (element order and key order included).
C1_RoundTrip ==
    (pc # "start" /\ AllAscii(TheTree) /\ NoF32(TheTree))
        => /\ pc # "panicked"
           /\ Decoded => results[1] = Ok(TheTree)

\* The value following the open call of the history: what a Value decode
\* started at the same reader state as the call leaves behind
Full == ValueDeserialize(call.start)

TopReturned(kind) ==
    /\ pc = "reading"
    /\ stack = <<>>
    /\ call.returned
    /\ call.kind = kind
    /\ IsOk(Full.res)

\* C2: when the consumer of a top-level List of N elements has asked for
\* K < N of them and returned, the cursor is where a decode of all N elements
\* leaves it, and the value after the List decodes as it does after a decode
\* of all N elements.
C2_ListPartialCursor ==
    (TopReturned("List") /\ call.current < call.num_elements)
        => /\ de.pos = Full.rd.pos
           /\ ValueDeserialize(de).res = ValueDeserialize(Full.rd).res

\* C3: when the consumer of a top-level Map of N >= 1 entries has returned,
\* whatever keys and values it asked for, the cursor is immediately after the
\* value of the last entry, where a decode of every entry leaves it.
C3_MapPartialCursor ==
    (TopReturned("Map") /\ call.num_elements >= 1) => de.pos = Full.rd.pos

\* peek_param_id then next_param_id on the current reader: the same tag, and
\* no byte read by the second
PeekThenNext ==
    LET p == peek_param_id(de)
        n == next_param_id(p.rd)
    IN IsOk(p.res) => /\ n.res = p.res
                      /\ n.rd.pos = p.rd.pos
                      /\ n.rd.peeked_param_id = None
                      /\ de.peeked_param_id = None => p.rd.pos = de.pos + 1

\* C4: peeking then taking the tag gives the same tag and reads one byte in
\* total, and once a top-level value has been decoded, in any of the modes,
\* no peeked tag is pending.
C4_NoPendingPeek ==
    /\ PeekThenNext
    /\ (stack = <<>> /\ call.returned) => de.peeked_param_id = None

\* every lookup write_value makes for the tree finds its entry
LookupsComplete(value) ==
    \A sub \in SubValues(value) :
        /\ Kind(sub) = "Hash" => GetIndexOf(hash_lookup(value), Body(sub)) # -1
        /\ Kind(sub) = "String" => Body(sub) \in DOMAIN string_pass(value).lookup
        /\ Kind(sub) = "Map" =>
              /\ get_struct_key(Body(sub)) \in DOMAIN struct_pass(value).lookup
              /\ \A i \in DOMAIN Body(sub) :
                    GetIndexOf(hash_lookup(value), Body(sub)[i][1]) # -1

\* C5: after the three passes every Hash and Map key is in the hash set,
\* every String in the string table and every Map, at any depth, in the
\* header table, so to_vec does not panic.
C5_LookupsSucceed ==
    pc # "start" => LookupsComplete(serialize(TheTree)) /\ ~doc.panic

\* C6: when a tree encodes and its document decodes, encoding the decoded
\* tree gives the same bytes as the first encoding.
C6_ReEncodeIdempotent ==
    pc = "reencoded" => ~reenc.panic /\ reenc.bytes = doc.bytes

Frames == {stack[i] : i \in DOMAIN stack}

\* the relative offset stored for element i of the List whose count field is
\* at count_pos
StoredListOffset(count_pos, i) == Unsigned(Slice(de.stream, count_pos + 4 * i, 4))

\* whether every element offset of a List frame and every value offset of a
\* Map frame is `base` of the frame plus the stored relative offset
OffsetsFrom(f, base) ==
    /\ \A i \in DOMAIN f.offsets : f.offsets[i] = base + StoredListOffset(f.count_pos, i)
    /\ \A i \in DOMAIN f.keys :
          f.keys[i][2] = base + HeaderEntry(de.raw, f.ref_position, i - 1)[2]

\* C7: the absolute offset of each element of an open List, and of each value
\* of an open Map, is the stored relative offset added to the position of the
\* byte before the construct's count field (its tag byte).
C7_BaseIsTagPosition == \A f \in Frames : OffsetsFrom(f, f.count_pos - 1)

\* C7 as stated: the stored relative offset added to the position of the
\* count field itself.
C7_BaseIsCountField == \A f \in Frames : OffsetsFrom(f, f.count_pos)

\* a Map and a List, each with an element, are open
C7_OpenListAndMap ==
    \E f, g \in Frames : /\ f.kind = "List" /\ Len(f.offsets) >= 1
                         /\ g.kind = "Map" /\ Len(g.keys) >= 1

Log == {de.log[i] : i \in DOMAIN de.log}

HashIndexOutOfBounds(res, index) ==
    IsErr(res) /\ Cause(res) = "HashOutOfBounds" /\ Arg(res) = index

StringRefOutOfBounds(res) == IsErr(res) /\ Cause(res) = "StringRefOutOfBounds"

\* the bytes of the reference blob from `offset` on, and the index of the
\* first zero byte among them (-1 for none)
BlobFrom(offset) == SubSeq(de.raw, offset + 1, Len(de.raw))
Terminator(offset) == FirstIndex(BlobFrom(offset), IsNul)
Unterminated(offset) == offset >= Len(de.raw) \/ Terminator(offset) = -1
TextAt(offset) == SubSeq(BlobFrom(offset), 1, Terminator(offset))

\* C9: a string offset at or past the end of the reference blob, or with no
\* zero byte after it, gives StringRefOutOfBounds; otherwise, when every byte
\* before the first zero byte is ASCII, the string is those bytes, and when
\* one is not, the lookup gives StringNotAscii.
C9_StringBounds ==
    \A e \in Log :
        e[1] = "get_string" =>
            IF Unterminated(e[2]) THEN StringRefOutOfBounds(e[3])
            ELSE IF FirstIndex(TextAt(e[2]), NotAscii) = -1 THEN e[3] = Ok(TextAt(e[2]))
                 ELSE IsErr(e[3]) /\ Cause(e[3]) = "StringNotAscii"

\* C9 as stated: every terminated string decodes to the bytes before its
\* first zero byte.
C9_TerminatedIsDecoded ==
    \A e \in Log :
        e[1] = "get_string" =>
            IF Unterminated(e[2]) THEN StringRefOutOfBounds(e[3])
            ELSE e[3] = Ok(TextAt(e[2]))

\* one deserializer has returned StringRefOutOfBounds for a String and then
\* decoded the next String
C9_BothStringCases ==
    /\ Len(results) = 2
    /\ StringRefOutOfBounds(results[1])
    /\ \E e \in Log : e[1] = "get_string" /\ ~Unterminated(e[2]) /\ IsOk(e[3])

\* where the reference blob starts in the document: after the signature, the
\* two sizes and the hash table
BlobStart == 16 + 8 * Len(de.hashes)

\* C10: when a String of the encoded tree has a byte >= 0x80, decoding the
\* document fails with StringNotAscii, and the position reported is that of
\* the first such byte of the string in the document.
C10_NotAsciiPosition ==
    (Decoded /\ ~AllAscii(TheTree))
        => /\ IsErr(results[1])
           /\ Cause(results[1]) = "StringNotAscii"
           /\ \E e \in Log :
                 /\ e[1] = "get_string"
                 /\ ~Unterminated(e[2])
                 /\ Arg(results[1]) =
                       BlobStart + e[2] + FirstIndex(TextAt(e[2]), NotAscii)

\* the kinds in the order of their tags, 1 to 12
TagNumbering ==
    <<"Bool", "I8", "U8", "I16", "U16", "I32", "U32", "F32",
      "Hash", "String", "List", "Map">>

LastResult == results[Len(results)]

\* a top-level deserialize call has been made on a reader that had no tag
\* peeked and had a byte left to read
TagWasRead ==
    /\ call.mode # None
    /\ call.start.peeked_param_id = None
    /\ call.start.pos < Len(call.start.stream)

\* the byte the call found where the tag of its value is
LeadingTag == call.start.stream[call.start.pos + 1]

\* C11: a value whose leading tag byte is not one of 1..12 fails with
\* InvalidParamId carrying that byte; each byte 1..12 stands for exactly one
\* kind, in the order Bool, I8, U8, I16, U16, I32, U32, F32, Hash, String,
\* List, Map; a decoded value is of the kind of its tag, and the encoder
\* writes the tag of the kind of the value.
C11_InvalidTag ==
    /\ \A byte \in 0..255 : TryFromU8(byte).ok <=> byte \in 1..12
    /\ \A byte \in 1..12 : TryFromU8(byte).id = TagNumbering[byte]
    /\ TagWasRead =>
          IF LeadingTag \notin 1..12
          THEN /\ call.returned
               /\ IsErr(LastResult)
               /\ Cause(LastResult) = "InvalidParamId"
               /\ Arg(LastResult) = LeadingTag
          ELSE (call.returned /\ IsOk(LastResult) /\ call.mode \in {"value", "any"})
                  => Kind(LastResult[2]) = TagNumbering[LeadingTag]
    /\ input.tops # <<>> =>
          TagNumbering[de.stream[1]] = Kind(input.tops[1])

\* one deserializer has met the byte 0 and then the byte 13 where a tag is
\* read, and has returned InvalidParamId for each
C11_BothInvalidTags ==
    /\ Len(results) = 2
    /\ TagWasRead /\ LeadingTag = 13
    /\ Cause(results[1]) = "InvalidParamId" /\ Arg(results[1]) = 0
    /\ Cause(results[2]) = "InvalidParamId" /\ Arg(results[2]) = 13

\* the i-th request is a next-key that returned a key
GaveKey(i) == access[i].op = "next_key" /\ access[i].returned # Ok(NoResult)

\* the request before the i-th returned a key
RightAfterKey(i) == i > 1 /\ GaveKey(i - 1)

\* a key has been returned before the i-th request, and no next-value
\* request was made since
KeyPending(i) ==
    \E j \in 1..(i - 1) :
        GaveKey(j) /\ \A k \in (j + 1)..(i - 1) : access[k].op # "next_value"

\* the offset the header of the Map (which starts the stream, so that its
\* offsets count from 0) gives the key returned last before the i-th request
KeyOffset(i) ==
    HeaderEntry(de.raw, Unsigned(Slice(de.stream, 5, 4)),
                Cardinality({j \in 1..(i - 1) : GaveKey(j)}) - 1)[2]

\* the value stored at `offset`, decoded the way `mode` asks by a
\* deserializer that has done nothing else
StoredAt(offset, mode) ==
    Run(Deserialize([rd |-> seek(call.start, offset), stack |-> <<>>, out |-> NoResult],
                    mode)).out

SameOutcome(returned, stored) ==
    IF IsOk(stored) THEN returned = stored
    ELSE IsErr(returned) /\ Cause(returned) = Cause(stored) /\ Arg(returned) = Arg(stored)

ValueBeforeKey == Err("Custom", 1)

\* C12: a next-value request made when no key has been returned since the
\* start or since the previous next-value request (the keys may be
\* exhausted) returns the error 'requesting value before key' and leaves
\* the cursor where it was; a next-value request made right after a key
\* returns the value stored at that key's offset.
C12_MapAccessProtocol ==
    \A i \in DOMAIN access :
        access[i].op = "next_value" =>
            /\ ~KeyPending(i) =>
                  /\ access[i].returned = ValueBeforeKey
                  /\ access[i].after = access[i].before
            /\ RightAfterKey(i) =>
                  SameOutcome(access[i].returned, StoredAt(KeyOffset(i), access[i].mode))

(***************************************************************************)
(* The written document as a reader of the format finds it: the two sizes, *)
(* the reference blob, and the nodes of the value reached through the      *)
(* offsets stored in Lists and in Map headers.                             *)
(***************************************************************************)
Written == pc \in {"written", "decoded", "reencoded"}

U32At(bytes, offset) == Unsigned(Slice(bytes, offset, 4))
HashDataSize == U32At(doc.bytes, 8)
RefDataSize == U32At(doc.bytes, 12)
Blob == Slice(doc.bytes, 16 + HashDataSize, RefDataSize)
ValueStart == 16 + HashDataSize + RefDataSize

\* the element or entry values of a List or Map, in order
Children(value) ==
    IF Kind(value) = "List" THEN Body(value) ELSE MapValues(Body(value))

\* where the i-th child of the List or Map written at `position` is
ChildPosition(value, position, i) ==
    IF Kind(value) = "List"
    THEN position + U32At(doc.bytes, position + 5 + 4 * (i - 1))
    ELSE position + HeaderEntry(Blob, U32At(doc.bytes, position + 5), i - 1)[2]

\* the nodes of the tree `value` written at `position`, each with its position
RECURSIVE Nodes(_, _)
Nodes(value, position) ==
    {<<value, position>>} \cup
    IF Kind(value) \in {"List", "Map"}
    THEN UNION {Nodes(Children(value)[i], ChildPosition(value, position, i)) :
                    i \in DOMAIN Children(value)}
    ELSE {}

WrittenNodes == Nodes(TheTree, ValueStart)

\* the contents of the String nodes of a tree, depth first
RECURSIVE StringsOf(_)
RECURSIVE StringsOfAll(_)
StringsOfAll(values) ==
    IF values = <<>> THEN <<>> ELSE StringsOf(Head(values)) \o StringsOfAll(Tail(values))
StringsOf(value) ==
    CASE Kind(value) = "String" -> <<Body(value)>>
      [] Kind(value) \in {"List", "Map"} -> StringsOfAll(Children(value))
      [] OTHER -> <<>>

\* a sequence without the repetitions of earlier elements
RECURSIVE Distinct(_)
Distinct(s) ==
    IF s = <<>> THEN <<>>
    ELSE LET front == Distinct(SubSeq(s, 1, Len(s) - 1)) IN
         IF s[Len(s)] \in Range(front) THEN front ELSE Append(front, s[Len(s)])

\* the contents one after the other, each followed by a zero byte
RECURSIVE Terminated(_)
Terminated(texts) ==
    IF texts = <<>> THEN <<>> ELSE Head(texts) \o <<0>> \o Terminated(Tail(texts))

\* where the entry of `text` starts in Terminated(texts)
EntryOffset(texts, text) ==
    Len(Terminated(SubSeq(texts, 1, (CHOOSE i \in DOMAIN texts : texts[i] = text) - 1)))

\* C13: the reference blob of a written document starts with one entry
\* (content, then a zero byte) per distinct String content of the tree, in
\* the order of first occurrence depth first, and every String node is
\* written with the offset of the entry of its content.
C13_StringDedup ==
    Written =>
        /\ SubSeq(Blob, 1, Len(Terminated(Distinct(StringsOf(TheTree)))))
              = Terminated(Distinct(StringsOf(TheTree)))
        /\ \A node \in WrittenNodes :
              Kind(node[1]) = "String" =>
                  /\ doc.bytes[node[2] + 1] = 10
                  /\ U32At(doc.bytes, node[2] + 1)
                        = EntryOffset(Distinct(StringsOf(TheTree)), Body(node[1]))

\* a List of two Strings of the same content has been written, with one
\* entry in the blob
C13_TwoEqualStrings ==
    /\ Written
    /\ TheTree = Val("List", <<Val("String", TextAB), Val("String", TextAB)>>)
    /\ Blob = TextAB \o <<0>>

\* the keys of a Map with the written size of the value of each
Shape(value) ==
    [i \in DOMAIN Body(value) |->
        <<Body(value)[i][1], calculate_binary_size_of_value(Body(value)[i][2])>>]

\* the offset of the i-th value of a Map of this shape from the Map's tag:
\* past the tag, the count and the header offset, and the values before it
RECURSIVE ValueOffset(_, _)
ValueOffset(shape, i) ==
    IF i = 1 THEN 9 ELSE ValueOffset(shape, i - 1) + shape[i - 1][2]

\* the i-th hash of the hash table of the document (hashes stay below 2^31)
HashAt(i) == U32At(doc.bytes, 16 + 8 * i)

WrittenMaps == {node \in WrittenNodes : Kind(node[1]) = "Map"}

\* the header offset written for the Map at `position`
HeaderOffset(position) == U32At(doc.bytes, position + 5)

\* the sum of the lengths of the sequences of a set
RECURSIVE TotalLen(_)
TotalLen(S) ==
    IF S = {} THEN 0
    ELSE LET s == CHOOSE s \in S : TRUE IN Len(s) + TotalLen(S \ {s})

\* C14: in a written document, two Maps with the same key sequence and the
\* same written size of the value at each position carry the same header
\* offset; the header there has one (hash index, value offset) pair per
\* entry, naming the entry's key and the offset of its value from the Map's
\* tag; and the blob holds, after the string entries, one header per shape.
C14_HeaderDedup ==
    Written =>
        /\ \A a, b \in WrittenMaps :
              Shape(a[1]) = Shape(b[1]) => HeaderOffset(a[2]) = HeaderOffset(b[2])
        /\ \A a \in WrittenMaps :
              /\ U32At(doc.bytes, a[2] + 1) = Len(Body(a[1]))
              /\ \A i \in DOMAIN Body(a[1]) :
                    /\ HashAt(HeaderEntry(Blob, HeaderOffset(a[2]), i - 1)[1])
                          = Body(a[1])[i][1]
                    /\ HeaderEntry(Blob, HeaderOffset(a[2]), i - 1)[2]
                          = ValueOffset(Shape(a[1]), i)
        /\ Len(Blob) = Len(Terminated(Distinct(StringsOf(TheTree))))
                       + 8 * TotalLen({Shape(a[1]) : a \in WrittenMaps})

\* a List of two Maps with the same keys and value sizes and other values
\* has been written, with one header of two pairs after the string entry
C14_TwoMapsOneHeader ==
    /\ Written
    /\ \E a, b \in WrittenMaps :
          /\ a[2] # b[2]
          /\ Body(a[1]) # Body(b[1])
          /\ Shape(a[1]) = Shape(b[1])
          /\ Len(Shape(a[1])) = 2
    /\ Len(Blob) = 2 + 16

\* two Maps of the written tree share a header and differ in their values
Twins(a, b) ==
    /\ a[2] # b[2]
    /\ Shape(a[1]) = Shape(b[1])
    /\ Body(a[1]) # Body(b[1])
    /\ HeaderOffset(a[2]) = HeaderOffset(b[2])

\* the keys of a Map of the tree with the stream position of each value
OwnKeys(node) ==
    [i \in DOMAIN Body(node[1]) |->
        <<Body(node[1])[i][1], node[2] + ValueOffset(Shape(node[1]), i)>>]

\* the header lookups of the decode, in order
MapLookups == SelectSeq(de.log, LAMBDA e : e[1] = "get_map")

\* C15: when two Maps of a written document share one header and differ in
\* their values, decoding the document gives each Map its own values: the
\* header lookup made for each Map, the first of them parsing the header
\* and the later ones served from the cache, returns the offsets of that
\* Map's values, counted from its own tag, and the decoded tree is the
\* encoded one.
C15_SharedHeaderOwnValues ==
    (Decoded /\ \E a, b \in WrittenMaps : Twins(a, b)) =>
        /\ results[1] = Ok(TheTree)
        /\ \A a \in WrittenMaps :
              \E i \in DOMAIN MapLookups :
                  /\ MapLookups[i][2] = HeaderOffset(a[2])
                  /\ MapLookups[i][4] = a[2]
                  /\ MapLookups[i][5] = Ok(OwnKeys(a))
                  /\ MapLookups[i][6] =
                        (\E j \in 1..(i - 1) : MapLookups[j][2] = HeaderOffset(a[2]))

\* a document with two such Maps has been decoded, the header of the
\* second Map coming from the cache
C15_TwinsDecoded ==
    /\ Decoded
    /\ \E a, b \in WrittenMaps : Twins(a, b) /\ Len(Body(a[1])) = 2
    /\ \E i \in DOMAIN MapLookups : MapLookups[i][6]
    /\ IsOk(results[1])

Merged == pc = "merged"

IntegerKinds == {"I8", "U8", "I16", "U16", "I32", "U32"}

\* the least and the greatest integer of an integer kind (for U32, as far
\* as the integers at hand go)
Least(t) ==
    CASE t = "I8" -> -128 [] t = "I16" -> -32768 [] t = "I32" -> I32Min
      [] OTHER -> 0
Greatest(t) ==
    CASE t = "I8" -> 127 [] t = "U8" -> 255 [] t = "I16" -> 32767
      [] t = "U16" -> 65535 [] OTHER -> I32Max

Representable(s, t) == Least(t) <= s /\ s <= Greatest(t)

\* C16: merging an integer source of value s into an integer leaf of kind T
\* sets the leaf to s when s is representable in T and leaves it unchanged
\* otherwise.
C16_MergeNarrowing ==
    (Merged /\ Kind(merging.target) \in IntegerKinds
            /\ Kind(merging.source) \in IntegerKinds) =>
        merging.merged =
            IF Representable(Body(merging.source), Kind(merging.target))
            THEN Val(Kind(merging.target), Body(merging.source))
            ELSE merging.target

\* the two trees have the same kinds node by node, Lists of the same
\* lengths and Maps of the same key sequences
RECURSIVE SameShape(_, _)
SameShape(a, b) ==
    /\ Kind(a) = Kind(b)
    /\ Kind(a) = "List" =>
          /\ Len(Body(a)) = Len(Body(b))
          /\ \A i \in DOMAIN Body(a) : SameShape(Body(a)[i], Body(b)[i])
    /\ Kind(a) = "Map" =>
          /\ MapKeys(Body(a)) = MapKeys(Body(b))
          /\ \A i \in DOMAIN Body(a) : SameShape(Body(a)[i][2], Body(b)[i][2])

\* the value the Map has under the key
ValueUnder(map, k) == map[CHOOSE i \in DOMAIN map : map[i][1] = k][2]

\* C17: a.merge(b) leaves the kind of every node of a, the length of every
\* List and the key sequence of every Map as they were; the elements of a
\* List are merged with the elements of b at the same index as far as b
\* goes and are untouched beyond; the values of a Map are merged with the
\* values b has under the same key and are untouched where b has none.
C17_MergeKeepsShape ==
    Merged =>
        /\ SameShape(merging.target, merging.merged)
        /\ (Kind(merging.target) = "List" /\ Kind(merging.source) = "List") =>
              \A i \in DOMAIN Body(merging.target) :
                  Body(merging.merged)[i] =
                      IF i <= Len(Body(merging.source))
                      THEN merge(Body(merging.target)[i], Body(merging.source)[i])
                      ELSE Body(merging.target)[i]
        /\ (Kind(merging.target) = "Map" /\ Kind(merging.source) = "Map") =>
              \A i \in DOMAIN Body(merging.target) :
                  Body(merging.merged)[i][2] =
                      IF Body(merging.target)[i][1] \in Range(MapKeys(Body(merging.source)))
                      THEN merge(Body(merging.target)[i][2],
                                 ValueUnder(Body(merging.source), Body(merging.target)[i][1]))
                      ELSE Body(merging.target)[i][2]

\* a List of two has been merged with a List of three
C17_LongerSourceMerged ==
    /\ Merged
    /\ Kind(merging.target) = "List" /\ Kind(merging.source) = "List"
    /\ Len(Body(merging.target)) = 2 /\ Len(Body(merging.source)) = 3
    /\ merging.merged # merging.target

\* the leaf kinds a leaf target takes a value from: its own, and for an
\* integer target every integer kind
Matching(target, source) ==
    \/ Kind(target) = Kind(source)
    \/ Kind(target) \in IntegerKinds /\ Kind(source) \in IntegerKinds

\* C18: when the source is of another kind than the target (for an integer
\* target: when the source is not an integer), merge leaves the target as
\* it was.
C18_MergeSkipsMismatch ==
    (Merged /\ ~Matching(merging.target, merging.source)) =>
        merging.merged = merging.target

\* a U32 has been merged into a Hash
C18_MismatchMerged ==
    /\ Merged
    /\ Kind(merging.target) = "Hash"
    /\ Kind(merging.source) = "U32"

\* the hashes of a tree: its Hash values and the keys of its Maps
TreeHashes(value) ==
    {Body(sub) : sub \in {s \in SubValues(value) : Kind(s) = "Hash"}}
    \cup UNION {Range(MapKeys(Body(sub))) :
                    sub \in {s \in SubValues(value) : Kind(s) = "Map"}}

\* the i-th entry (from 0) of the hash table of the document, all 8 bytes
TableEntry(i) == Unsigned(Slice(doc.bytes, 16 + 8 * i, 8))
TableSize == HashDataSize \div 8

\* C19: a written document is the signature "paracobn", a u32 of 8 times
\* the number of distinct hashes of the tree, a u32 of the length of the
\* reference blob, the hashes (8 bytes each, at the index the Hash nodes
\* refer to them by) and the blob, and the tagged top-level value begins at
\* 16 + H + R and ends the document; from_reader takes the hash table from
\* offset 16, the blob from 16 + H, and starts the value at 16 + H + R.
C19_DocumentLayout ==
    Written =>
        /\ Len(doc.bytes) >= 16
        /\ Slice(doc.bytes, 0, 8) = <<112, 97, 114, 97, 99, 111, 98, 110>>
        /\ HashDataSize = 8 * Cardinality(TreeHashes(TheTree))
        /\ {TableEntry(i) : i \in 0..(TableSize - 1)} = TreeHashes(TheTree)
        /\ \A node \in WrittenNodes :
              Kind(node[1]) = "Hash" =>
                  /\ U32At(doc.bytes, node[2] + 1) < TableSize
                  /\ TableEntry(U32At(doc.bytes, node[2] + 1)) = Body(node[1])
        /\ Len(doc.bytes) = ValueStart + calculate_binary_size_of_value(TheTree)
        /\ doc.bytes[ValueStart + 1] = ParamIdOf(Kind(TheTree))
        /\ Decoded =>
              /\ call.start.stream = doc.bytes
              /\ call.start.hashes = [i \in 1..TableSize |-> TableEntry(i - 1)]
              /\ call.start.raw = Blob
              /\ call.start.pos = ValueStart

\* a document with two hashes and a blob that is not empty has been written
\* and read back
C19_TableAndBlobRead ==
    /\ Decoded
    /\ TableSize = 2
    /\ RefDataSize > 0
    /\ IsOk(results[1])

Calls == map_serializer.returned
IsValueCall(i) == Calls[i].op = "serialize_value"

\* C20 as written: a serialize_value call that is the first call or comes
\* right after another serialize_value call returns an error and leaves the
\* map as it was; a serialize_value call of a Value right after a
\* serialize_key call that was given a hash inserts that key with that value
\* and leaves no key pending.
C20_EncoderMapProtocol ==
    \A i \in DOMAIN Calls :
        IsValueCall(i) =>
            /\ (i = 1 \/ IsValueCall(i - 1)) =>
                  /\ IsErr(Calls[i].out)
                  /\ Calls[i].after.map = Calls[i].before.map
            /\ (i > 1 /\ ~IsValueCall(i - 1) /\ IsOk(Calls[i - 1].out)
                      /\ Kind(Calls[i].arg) # "char") =>
                  /\ Calls[i].out = Ok(<<>>)
                  /\ Calls[i].after.map =
                        IndexMapInsert(Calls[i].before.map, Body(Calls[i - 1].arg),
                                       Calls[i].arg)
                  /\ Calls[i].after.current_key = NoResult

\* the call returned Ok
Succeeded(i) == IsOk(Calls[i].out)

\* the key pending before the i-th call: that of the last serialize_key
\* call that succeeded, when no serialize_value call has succeeded since
RECURSIVE PendingBefore(_)
PendingBefore(i) ==
    IF i = 1 THEN NoResult
    ELSE IF ~Succeeded(i - 1) THEN PendingBefore(i - 1)
    ELSE IF IsValueCall(i - 1) THEN NoResult
    ELSE Some(Body(Calls[i - 1].arg))

\* C20, amended: a serialize_value call made when no serialize_key call has
\* succeeded since the start or since the last serialize_value call that
\* succeeded returns the error 'attempting to serialize value with no key'
\* and leaves the map as it was; a serialize_value call of a Value made
\* when a key is pending inserts that key with that value, returns Ok and
\* leaves no key pending; a call that returns an error leaves the map and
\* the pending key as they were.
C20_EncoderMapProtocolOfSucceededCalls ==
    \A i \in DOMAIN Calls :
        /\ Calls[i].before.current_key = PendingBefore(i)
        /\ ~Succeeded(i) => Calls[i].after = Calls[i].before
        /\ IsValueCall(i) =>
              /\ PendingBefore(i) = NoResult => Calls[i].out = NoKey
              /\ (PendingBefore(i) # NoResult /\ Kind(Calls[i].arg) # "char") =>
                    /\ Calls[i].out = Ok(<<>>)
                    /\ Calls[i].after.map =
                          IndexMapInsert(Calls[i].before.map, PendingBefore(i)[2],
                                         Calls[i].arg)
                    /\ Calls[i].after.current_key = NoResult

\* a value has been inserted under its key, a second serialize_value has
\* been refused, and the Map has been ended with the one entry
C20_ValueTwiceAfterOneKey ==
    /\ pc = "ended"
    /\ Len(Calls) = 3
    /\ ~IsValueCall(1) /\ IsValueCall(2) /\ IsValueCall(3)
    /\ Succeeded(2)
    /\ Calls[3].out = NoKey
    /\ results = <<Ok(Val("Map", << <<2, Val("I8", 5)>> >>))>>

\* how deep Lists and Maps are nested in a tree (0 for a leaf)
RECURSIVE Nesting(_)
RECURSIVE NestingOfAll(_)
NestingOfAll(values) ==
    IF values = <<>> THEN 0
    ELSE IF Nesting(Head(values)) > NestingOfAll(Tail(values))
         THEN Nesting(Head(values)) ELSE NestingOfAll(Tail(values))
Nesting(value) ==
    IF Kind(value) \in {"List", "Map"} THEN 1 + NestingOfAll(Children(value)) ELSE 0

\* the errors the top-level decodes have returned
ErrorsReturned == {i \in DOMAIN results : IsErr(results[i])}
FramesOf(i) == PositionStack(results[i])
FrameIds(i) == [k \in DOMAIN FramesOf(i) |-> FramesOf(i)[k][1]]

\* the stream was written from trees
OfTrees == input.kind = "stream" /\ input.tops # <<>>

\* C21 as written: an error returned by a decode has at least one frame; the
\* frames after the first are those of the enclosing Lists and Maps, one
\* for each, so an error in a stream of trees nested d deep has at most
\* 1 + d frames.
C21_OneFramePerConstruct ==
    \A i \in ErrorsReturned :
        /\ Len(FramesOf(i)) >= 1
        /\ \A k \in 2..Len(FramesOf(i)) : FrameIds(i)[k] \in {"List", "Map"}
        /\ OfTrees => Len(FramesOf(i)) <= 1 + NestingOfAll(input.tops)

\* C21, amended: an error returned by a decode has at least one frame; the
\* frames after the first are added from the inside out by the Lists and
\* Maps the error passes through, each adding its own frame (List or Map)
\* and, before it, the frame of the element or value access the error came
\* through (ParamId for a List element, Map for a Map value), so an error
\* that passed through a construct ends with a List or Map frame and an
\* error in a stream of trees nested d deep has at most 1 + 2d frames.
C21_ErrorTrace ==
    \A i \in ErrorsReturned :
        /\ Len(FramesOf(i)) >= 1
        /\ \A k \in 2..Len(FramesOf(i)) :
              /\ FrameIds(i)[k] \in {"ParamId", "List", "Map"}
              /\ FrameIds(i)[k] = "ParamId" =>
                    k < Len(FramesOf(i)) /\ FrameIds(i)[k + 1] = "List"
        /\ OfTrees => Len(FramesOf(i)) <= 1 + 2 * NestingOfAll(input.tops)

\* an error raised for an element of a List has been returned with the
\* frame of the element, that of the element access and that of the List
C21_ElementErrorReturned ==
    /\ OfTrees
    /\ NestingOfAll(input.tops) = 1
    /\ \E i \in ErrorsReturned :
          /\ Len(FramesOf(i)) = 3
          /\ FrameIds(i)[2] = "ParamId"
          /\ FrameIds(i)[3] = "List"

\* the payload width of the scalar kinds with tags 1..7
WidthOfTag == <<1, 1, 1, 2, 2, 4, 4>>

\* the bytes after the tag the call found
PayloadByte(k) == call.start.stream[call.start.pos + 1 + k]

\* the payload as a number: little-endian, the top byte taken as signed for
\* the signed kinds (a U32 from 2^31 on is outside the integers at hand)
TopByte(signed, byte) == IF signed /\ byte >= 128 THEN byte - 256 ELSE byte
PayloadNumber(width, signed) ==
    CASE width = 1 -> TopByte(signed, PayloadByte(1))
      [] width = 2 -> PayloadByte(1) + 256 * TopByte(signed, PayloadByte(2))
      [] width = 4 -> PayloadByte(1) + 256 * PayloadByte(2) + 65536 * PayloadByte(3)
                      + 16777216 * TopByte(signed, PayloadByte(4))

\* a top-level decode, as a Value or by a consumer that takes anything, has
\* returned from a scalar tag with its whole payload in the stream
ScalarDecoded ==
    /\ TagWasRead
    /\ call.returned
    /\ call.mode \in {"value", "any"}
    /\ LeadingTag \in 1..7
    /\ call.start.pos + 1 + WidthOfTag[LeadingTag] <= Len(call.start.stream)
    /\ LeadingTag = 7 => PayloadByte(4) < 128

RECURSIVE StatedSize(_)
RECURSIVE StatedSizes(_)
StatedSizes(values) ==
    IF values = <<>> THEN 0 ELSE StatedSize(Head(values)) + StatedSizes(Tail(values))
StatedSize(value) ==
    CASE Kind(value) \in {"Bool", "I8", "U8"} -> 2
      [] Kind(value) \in {"I16", "U16"} -> 3
      [] Kind(value) = "List" -> 5 + 4 * Len(Body(value)) + StatedSizes(Body(value))
      [] Kind(value) = "Map" -> 9 + StatedSizes(Children(value))
      [] OTHER -> 5

\* what write_value emits for a value of the written tree
Emitted(value) ==
    write_value(hash_lookup(TheTree), string_pass(TheTree).lookup,
                struct_pass(TheTree).lookup, value)

\* C23: for every value of a written tree, write_value emits as many bytes
\* as calculate_binary_size_of_value gives: 2 for Bool/I8/U8, 3 for I16/U16,
\* 5 for I32/U32/F32/String/Hash, 5 + 4N + the sizes of the elements for a
\* List of N, 9 + the sizes of the values for a Map; the document holds
\* that many bytes from the start of the value on.
C23_SizeMatchesWriter ==
    Written =>
        /\ \A sub \in SubValues(TheTree) :
              /\ calculate_binary_size_of_value(sub) = StatedSize(sub)
              /\ ~Emitted(sub).panic
              /\ Len(Emitted(sub).bytes) = calculate_binary_size_of_value(sub)
        /\ Len(doc.bytes) - ValueStart = calculate_binary_size_of_value(TheTree)

\* a List of two Maps of two entries has been written
C23_NestedWritten ==
    /\ Written
    /\ Kind(TheTree) = "List" /\ Len(Body(TheTree)) = 2
    /\ \A i \in 1..2 : Kind(Body(TheTree)[i]) = "Map" /\ Len(Body(Body(TheTree)[i])) = 2
    /\ Len(doc.bytes) - ValueStart = 13 + StatedSizes(Body(TheTree))

\* the bytes a List or Map has before its first element or value: tag,
\* count and N offsets, or tag, count and header offset
LeadLen(value) == IF Kind(value) = "List" THEN 5 + 4 * Len(Body(value)) ELSE 9

\* where write_value puts the values of a tree written from position p on:
\* every value right after the one before it, the elements of a List and
\* the values of a Map right after its leading bytes
RECURSIVE Placed(_, _)
RECURSIVE PlacedAll(_, _)
PlacedAll(values, p) ==
    IF values = <<>> THEN {}
    ELSE Placed(Head(values), p) \cup PlacedAll(Tail(values), p + StatedSize(Head(values)))
Placed(value, p) ==
    {<<value, p>>} \cup
    IF Kind(value) \in {"List", "Map"}
    THEN PlacedAll(Children(value), p + LeadLen(value)) ELSE {}

\* where the i-th element or value of the List or Map placed at p is placed
PlaceOfChild(value, p, i) ==
    p + LeadLen(value) + StatedSizes(SubSeq(Children(value), 1, i - 1))

\* the absolute offset the decoder holds for the i-th element or value of
\* an open List or Map
DecoderOffsets(f) ==
    IF f.kind = "List" THEN f.offsets ELSE [i \in DOMAIN f.keys |-> f.keys[i][2]]

\* the open List or Map f is the decoder's view of the placed node
OpenOn(f, node) ==
    /\ Kind(node[1]) = f.kind
    /\ f.count_pos = node[2] + 1
    /\ f.num_elements = Len(Children(node[1]))

\* C24: for every List and Map the encoder wrote at p, the absolute offset
\* the decoder computes for the i-th element or value (base position plus
\* stored offset, the stored offsets being running sums of the sizes from
\* 5 + 4N on for a List and from 9 on for a Map) is the position at which
\* write_value wrote the tag of that element or value.
C24_OffsetAgreement ==
    OfTrees =>
        \A k \in DOMAIN stack : \A node \in PlacedAll(input.tops, 0) :
            OpenOn(stack[k], node) =>
                /\ Len(DecoderOffsets(stack[k])) = Len(Children(node[1]))
                /\ \A i \in DOMAIN Children(node[1]) :
                      /\ DecoderOffsets(stack[k])[i] = PlaceOfChild(node[1], node[2], i)
                      /\ de.stream[PlaceOfChild(node[1], node[2], i) + 1]
                            = ParamIdOf(Kind(Children(node[1])[i]))

\* a Map and, inside it, a List of an I8 and a Bool are open
C24_ListInMapOpen ==
    /\ OfTrees
    /\ Len(stack) = 2
    /\ stack[1].kind = "Map" /\ stack[2].kind = "List"
    /\ \E node \in PlacedAll(input.tops, 0) :
          OpenOn(stack[2], node) /\ Len(Children(node[1])) = 2 /\ node[2] > 0

\* the Hash values and Map keys of a tree as a depth-first walk meets them,
\* each key of a Map before the value under it
RECURSIVE HashesMet(_)
RECURSIVE HashesMetInList(_)
RECURSIVE HashesMetInMap(_)
HashesMetInList(values) ==
    IF values = <<>> THEN <<>>
    ELSE HashesMet(Head(values)) \o HashesMetInList(Tail(values))
HashesMetInMap(map) ==
    IF map = <<>> THEN <<>>
    ELSE <<Head(map)[1]>> \o HashesMet(Head(map)[2]) \o HashesMetInMap(Tail(map))
HashesMet(value) ==
    CASE Kind(value) = "Hash" -> <<Body(value)>>
      [] Kind(value) = "List" -> HashesMetInList(Body(value))
      [] Kind(value) = "Map" -> HashesMetInMap(Body(value))
      [] OTHER -> <<>>

\* the hash table of the document
Table == [i \in 1..TableSize |-> TableEntry(i - 1)]

\* C25: the hash table written for a tree holds every Hash value and every
\* Map key of the tree once, in the order a depth-first walk that takes each
\* Map key before the value under it first meets them; the index written
\* for a Hash value and in a Map header entry is the place of that hash in
\* the table.
C25_HashTable ==
    Written =>
        /\ Table = Distinct(HashesMet(TheTree))
        /\ \A node \in WrittenNodes :
              /\ Kind(node[1]) = "Hash" =>
                    /\ U32At(doc.bytes, node[2] + 1) < TableSize
                    /\ Table[U32At(doc.bytes, node[2] + 1) + 1] = Body(node[1])
              /\ Kind(node[1]) = "Map" =>
                    \A i \in DOMAIN Body(node[1]) :
                        /\ HeaderEntry(Blob, HeaderOffset(node[2]), i - 1)[1] < TableSize
                        /\ Table[HeaderEntry(Blob, HeaderOffset(node[2]), i - 1)[1] + 1]
                              = Body(node[1])[i][1]

\* a Map of a Hash under its first key and a second key has been written,
\* with the Hash between the two keys in the table
C25_ValueBetweenKeys ==
    /\ Written
    /\ Kind(TheTree) = "Map" /\ MapKeys(Body(TheTree)) = <<1, 2>>
    /\ Body(TheTree)[1][2] = Val("Hash", 5)
    /\ Table = <<1, 5, 2>>

\* the header lookups of the last operation: <<offset, count, base, result,
\* whether the cache answered>>
MapLookupsMade == {i \in DOMAIN de.log : de.log[i][1] = "get_map"}

\* what a parse of `count` pairs at `offset` of the blob gives with nothing
\* cached: the pairs, or the error of the first pair that has none
PairAt(offset, k) == HeaderEntry(de.raw, offset, k)
FreshParse(offset, count, base) ==
    IF offset + 8 * count > Len(de.raw)
    THEN Err("MapRefOutOfBounds", <<de.file_offset + offset, count>>)
    ELSE IF \E k \in 0..(count - 1) : PairAt(offset, k)[1] >= Len(de.hashes)
         THEN Err("HashOutOfBounds",
                  PairAt(offset, CHOOSE k \in 0..(count - 1) :
                                    /\ PairAt(offset, k)[1] >= Len(de.hashes)
                                    /\ \A j \in 0..(k - 1) :
                                          PairAt(offset, j)[1] < Len(de.hashes))[1])
         ELSE Ok([k \in 1..count |->
                    <<de.hashes[PairAt(offset, k - 1)[1] + 1],
                      base + PairAt(offset, k - 1)[2]>>])

\* C26: every Map header lookup (offset, count) returns what a parse with
\* empty caches returns: the `count` (hash, base + relative offset) pairs
\* read from the blob at the offset, or MapRefOutOfBounds when offset +
\* 8 x count is past the end of the blob, whatever was looked up before.
C26_HeaderCacheTransparent ==
    \A i \in MapLookupsMade :
        de.log[i][5] = FreshParse(de.log[i][2], de.log[i][3], de.log[i][4])

\* C28: in a written document, two Maps of different fingerprints (other
\* key sequences or other value sizes at some position, a Map of no entries
\* against one with entries included) have different header offsets.
C28_DistinctHeaderOffsets ==
    Written =>
        \A a, b \in WrittenMaps :
            Shape(a[1]) # Shape(b[1]) => HeaderOffset(a[2]) # HeaderOffset(b[2])

\* C27: every decode ends with a value or an Error: no unwrap of an absent
\* entry is executed, the catch-up step of a List or Map has a last element
\* or key to seek to whenever it runs.
C27_DecoderTotal ==
    /\ pc # "panicked"
    /\ \A i \in DOMAIN results : ~IsPanic(results[i])

\* the tag of the top-level value of the document, and the bytes its
\* reference points at in the blob, up to the zero byte
TopTag == doc.bytes[ValueStart + 1]
TopText ==
    LET from == SubSeq(Blob, U32At(doc.bytes, ValueStart + 1) + 1, Len(Blob))
    IN SubSeq(from, 1, (CHOOSE i \in DOMAIN from :
                            from[i] = 0 /\ \A j \in 1..(i - 1) : from[j] # 0) - 1)

\* C29: a String-tagged value that decodes as a Value decodes to
\* Value::String of exactly the bytes it refers to in the blob, whatever
\* they are ('0x' and ten hex digits included), and a value that decodes to
\* Value::Hash is Hash-tagged.
C29_StringStaysString ==
    (Decoded /\ IsOk(results[1])) =>
        /\ TopTag = ParamIdOf("String") => results[1][2] = Val("String", TopText)
        /\ Kind(results[1][2]) = "Hash" => TopTag = ParamIdOf("Hash")

\* C30: decoding a written value as a Value from the position of its tag
\* succeeds and leaves the cursor at that position plus the size of the
\* value, for Lists and Maps nested at every depth.
C30_CursorAdvance ==
    results # <<>> =>
        /\ IsOk(results[1])
        /\ de.pos = ValueStart + calculate_binary_size_of_value(TheTree)

====
